---- MODULE Spec2Model ----
(***************************************************************************)
(* Model of the Agent Table deliberation engine (ralph_mode/agent_table):  *)
(* the protocol finite state machine (fsm.py), the negotiation manager     *)
(* (negotiation.py), the consensus engine (consensus.py), the trust        *)
(* ledger (scoring.py), the interaction graph (interaction.py) and the     *)
(* persisted table state (state.py, table.py).                             *)
(*                                                                         *)
(* Each component is an independent object in the code, so each has its    *)
(* own specification (SpecFSM, SpecNeg, ...) over the shared variables;    *)
(* a component's specification leaves the other components unchanged.      *)
(***************************************************************************)
EXTENDS Integers, Sequences, FiniteSets, TLC

VARIABLES
    \* --- FiniteStateMachine (fsm.py) ---
    fsm_current,      \* self._current
    fsm_states,       \* keys of self._states
    fsm_history,      \* self._history, a list of TransitionRecord
    fsm_last,         \* the last call made on the machine and what it returned
    \* --- NegotiationManager (negotiation.py) ---
    neg_max,          \* self.max_negotiation_rounds
    neg_tbl,          \* self._negotiations, keyed by thread id (= negotiation id)
    neg_ops,          \* number of calls made on the manager; the next message id
    neg_deadlock_calls,  \* how often the on_deadlock callback has been invoked
    neg_escalate_calls,  \* how often the on_escalate callback has been invoked
    neg_resolve_calls,   \* how often the on_resolve callback has been invoked
    \* --- ConsensusEngine (consensus.py) ---
    cons_votes,       \* self._votes, a list of Vote
    cons_last,        \* the last call that wrote self._votes, and the vote it was given
    \* --- AgentTrustRecord (scoring.py) ---
    trust,            \* the record's counters and trust_score
    trust_pre,        \* the record as it was before the last record_event
    trust_event,      \* the last record_event call
    \* --- InteractionGraph (interaction.py) ---
    g_threads,        \* self._threads: thread id -> ConversationThread._messages
    g_all,            \* self._all_messages
    \* --- TableState file (state.py) as driven by AgentTable (table.py) ---
    st_exists,        \* whether table-state.json exists
    st,               \* the contents of table-state.json
    st_last,          \* the last orchestrator call and whether it raised
    \* --- AgentMessage objects (models.py) ---
    m_msgs,           \* the messages constructed so far, in construction order
    m_parent,         \* per message: the index of the message create_reply was called on, 0 if none
    \* --- a FiniteStateMachine built by its user (fsm.py) ---
    gf_transitions,   \* self._transitions, in registration order
    gf_current,       \* self._current
    gf_history,       \* self._history
    gf_log,           \* the callbacks and actions that have run, in order
    gf_count,         \* number of successful trigger calls plus force_state calls
    gf_last,          \* the last call made on the machine and what it did
    \* --- AgentTable over a directory (table.py) ---
    tb,               \* a directory and the one AgentTable object every call is made on
    pp,               \* a second directory, every call on an AgentTable constructed for it
    tb_last           \* the last call and whether it raised

fsm_vars == <<fsm_current, fsm_states, fsm_history, fsm_last>>

neg_vars == <<neg_max, neg_tbl, neg_ops, neg_deadlock_calls, neg_escalate_calls, neg_resolve_calls>>

cons_vars == <<cons_votes, cons_last>>

trust_vars == <<trust, trust_pre, trust_event>>

graph_vars == <<g_threads, g_all>>

st_vars == <<st_exists, st, st_last>>

msg_vars == <<m_msgs, m_parent>>

gen_vars == <<gf_transitions, gf_current, gf_history, gf_log, gf_count, gf_last>>

tbl_vars == <<tb, pp, tb_last>>

vars == <<fsm_vars, neg_vars, cons_vars, trust_vars, graph_vars, st_vars, msg_vars, gen_vars, tbl_vars>>

(***************************************************************************)
(* Bounds                                                                  *)
(***************************************************************************)
MaxHistory == 3

MaxNegRounds == 3

MaxNegOps == 5

MaxMinVoters == 3

MaxTrustEvents == 6

MaxGraphMessages == 2
MaxTurns == 4
MaxDepthArg == 4

MaxDriveCalls == 7

MaxMaxRounds == 3

MaxMessages == 4

MaxTransitions == 2

MaxGenHistory == 2

MaxTableCalls == 3

(***************************************************************************)
(* fsm.py : contexts and guards                                            *)
(***************************************************************************)
\* A context argument: None, or a dict that may hold the key auto_escalate.
CtxNone == [is_none |-> TRUE, has_key |-> FALSE, auto_escalate |-> FALSE]

CtxEmpty == [is_none |-> FALSE, has_key |-> FALSE, auto_escalate |-> FALSE]

CtxAutoEscalate(b) == [is_none |-> FALSE, has_key |-> TRUE, auto_escalate |-> b]

\* The context arguments the calls are made with (None becomes {} in the call).
Contexts == {CtxNone, CtxAutoEscalate(TRUE), CtxAutoEscalate(FALSE)}

\* ctx = context or {}
ContextOrEmpty(context) == IF context.is_none THEN CtxEmpty ELSE context

\* c.get("auto_escalate", False)
GetAutoEscalate(c) == IF c.has_key THEN c.auto_escalate ELSE FALSE

\* Transition.is_allowed: no guard always allows; the two guards of the
\* protocol machine are the lambdas of build_protocol_fsm; a guard that
\* raises is caught and counts as False.
IsAllowed(t, ctx) ==
    CASE t.guard = "none" -> TRUE
      [] t.guard = "auto_escalate" -> GetAutoEscalate(ctx)
      [] t.guard = "not_auto_escalate" -> ~GetAutoEscalate(ctx)
      [] t.guard = "raises" -> FALSE

Tr(s, t, e, g, p) == [source |-> s, target |-> t, event |-> e, guard |-> g, priority |-> p]

(***************************************************************************)
(* fsm.py : build_protocol_fsm                                             *)
(***************************************************************************)
PlanTransitionsSameGuard ==
    << Tr("plan", "implement", "plan_approved", "none", 0),
       Tr("plan", "resolve", "plan_rejected", "auto_escalate", 10),
       Tr("plan", "plan", "plan_rejected", "auto_escalate", 0) >>

PlanTransitions ==
    << Tr("plan", "implement", "plan_approved", "none", 0),
       Tr("plan", "resolve", "plan_rejected", "auto_escalate", 10),
       Tr("plan", "plan", "plan_rejected", "not_auto_escalate", 0) >>

ImplementTransitions ==
    << Tr("implement", "approve", "review_approved", "none", 0),
       Tr("implement", "resolve", "review_rejected", "auto_escalate", 10),
       Tr("implement", "implement", "review_rejected", "not_auto_escalate", 0),
       Tr("implement", "resolve", "escalated", "none", 100) >>

ResolveTransitions ==
    << Tr("resolve", "approve", "decision_made", "none", 0),
       Tr("resolve", "plan", "decision_restart", "none", 0) >>

ApproveTransitions ==
    << Tr("approve", "finalized", "approved", "none", 0),
       Tr("approve", "plan", "rejected", "none", 0) >>

ForceEscalateTransitions ==
    << Tr("plan", "resolve", "force_escalate", "none", 50),
       Tr("implement", "resolve", "force_escalate", "none", 50) >>

\* finalized registered without is_terminal, and the new-round transition
\* also registered from finalized
BuildProtocolFsmReopen ==
    [ initial |-> "plan",
      states |-> {"plan", "implement", "resolve", "approve", "finalized"},
      terminal |-> {},
      transitions |-> PlanTransitions \o ImplementTransitions \o ResolveTransitions
                      \o ApproveTransitions \o ForceEscalateTransitions
                      \o << Tr("finalized", "plan", "rejected", "none", 0) >> ]

BuildProtocolFsm ==
    [ initial |-> "plan",
      states |-> {"plan", "implement", "resolve", "approve", "finalized"},
      terminal |-> {"finalized"},
      transitions |-> PlanTransitions \o ImplementTransitions \o ResolveTransitions
                      \o ApproveTransitions \o ForceEscalateTransitions ]

\* The events the protocol machine knows, and one it does not.
Events ==
    {"plan_approved", "plan_rejected", "review_approved", "review_rejected", "escalated",
     "decision_made", "decision_restart", "approved", "rejected", "force_escalate",
     "unknown_event"}

\* States force_state is called with: registered ones (the terminal one
\* among them) and one that is not registered yet.
ForceTargets == {"approve", "finalized", "custom"}

\* self._transitions of the machine the orchestrator uses: nothing registers
\* a transition after build_protocol_fsm has returned.
FsmTransitions == BuildProtocolFsm.transitions

\* self._states[s]["is_terminal"]; a state added by force_state is not terminal
IsTerminal(s) == s \in BuildProtocolFsm.terminal

(***************************************************************************)
(* fsm.py : FiniteStateMachine.trigger                                     *)
(***************************************************************************)
\* candidates = [t for t in self._transitions if t.source == current and t.event == event]
Candidates(transitions, current, event) ==
    SelectSeq(transitions, LAMBDA t : t.source = current /\ t.event = event)

\* candidates.sort(key=priority, reverse=True): a stable sort, equal
\* priorities keep their registration order.  Insertion of x after every
\* element of s whose priority is >= x.priority.
RECURSIVE InsertByPriority(_, _)
InsertByPriority(s, x) ==
    IF s = <<>> THEN <<x>>
    ELSE IF Head(s).priority >= x.priority
         THEN <<Head(s)>> \o InsertByPriority(Tail(s), x)
         ELSE <<x>> \o s

RECURSIVE SortByPriorityDesc(_)
SortByPriorityDesc(s) ==
    IF s = <<>> THEN <<>>
    ELSE InsertByPriority(SortByPriorityDesc(SubSeq(s, 1, Len(s) - 1)), s[Len(s)])

\* for t in candidates: if t.is_allowed(ctx): return ...
RECURSIVE FirstAllowed(_, _)
FirstAllowed(s, ctx) ==
    IF s = <<>> THEN [found |-> FALSE, target |-> "none"]
    ELSE IF IsAllowed(Head(s), ctx) THEN [found |-> TRUE, target |-> Head(s).target]
    ELSE FirstAllowed(Tail(s), ctx)

\* What trigger(event, context=context) does in a machine whose current
\* state is `current`: the error it raises, or the target it moves to.
TriggerOutcome(current, event, context) ==
    LET ctx == ContextOrEmpty(context)
        cands == Candidates(FsmTransitions, current, event)
        pick == FirstAllowed(SortByPriorityDesc(cands), ctx)
    IN  IF IsTerminal(current) THEN [ok |-> FALSE, err |-> "terminal", target |-> current]
        ELSE IF cands = <<>> THEN [ok |-> FALSE, err |-> "no_transition", target |-> current]
        ELSE IF pick.found THEN [ok |-> TRUE, err |-> "none", target |-> pick.target]
        ELSE [ok |-> FALSE, err |-> "guards_blocked", target |-> current]

\* can_trigger(event, context=context)
CanTrigger(current, event, context) ==
    LET ctx == ContextOrEmpty(context)
        cands == Candidates(FsmTransitions, current, event)
    IN  IF IsTerminal(current) THEN FALSE
        ELSE \E i \in 1..Len(cands) : IsAllowed(cands[i], ctx)

Record(from, to, event) == [from_state |-> from, to_state |-> to, event |-> event]

LastCall(op, event, context, ok, err, result) ==
    [ op |-> op, event |-> event, context |-> context, ok |-> ok, err |-> err,
      result |-> result, pre_state |-> fsm_current, pre_history |-> fsm_history ]

FsmInit ==
    /\ fsm_current = BuildProtocolFsm.initial
    /\ fsm_states = BuildProtocolFsm.states
    /\ fsm_history = <<>>
    /\ fsm_last = [ op |-> "init", event |-> "none", context |-> CtxNone, ok |-> TRUE,
                    err |-> "none", result |-> "none", pre_state |-> "plan",
                    pre_history |-> <<>> ]

\* trigger(event, context=context): raises FSMError (err) or runs
\* _execute_transition, which sets _current and appends one record.
Trigger(event, context) ==
    LET o == TriggerOutcome(fsm_current, event, context)
    IN  /\ o.ok => Len(fsm_history) < MaxHistory
        /\ fsm_current' = o.target
        /\ fsm_history' = IF o.ok THEN Append(fsm_history, Record(fsm_current, o.target, event))
                          ELSE fsm_history
        /\ fsm_last' = LastCall("trigger", event, context, o.ok, o.err,
                                IF o.ok THEN o.target ELSE "raised")
        /\ UNCHANGED fsm_states

\* try_trigger: trigger, with FSMError turned into a None result
TryTrigger(event, context) ==
    LET o == TriggerOutcome(fsm_current, event, context)
    IN  /\ o.ok => Len(fsm_history) < MaxHistory
        /\ fsm_current' = o.target
        /\ fsm_history' = IF o.ok THEN Append(fsm_history, Record(fsm_current, o.target, event))
                          ELSE fsm_history
        /\ fsm_last' = LastCall("try_trigger", event, context, o.ok, "none",
                                IF o.ok THEN o.target ELSE "None")
        /\ UNCHANGED fsm_states

\* force_state that leaves a terminal state alone, as trigger does
ForceStateRespectsTerminal(state) ==
    /\ Len(fsm_history) < MaxHistory
    /\ fsm_states' = fsm_states \cup {state}
    /\ fsm_history' = Append(fsm_history, Record(fsm_current, state, "_force"))
    /\ fsm_current' = IF IsTerminal(fsm_current) THEN fsm_current ELSE state
    /\ fsm_last' = LastCall("force_state", state, CtxNone, TRUE, "none", "none")

\* force_state(state); the call's argument is kept in the event field of
\* fsm_last
ForceState(state) ==
    /\ Len(fsm_history) < MaxHistory
    /\ fsm_states' = fsm_states \cup {state}
    /\ fsm_history' = Append(fsm_history, Record(fsm_current, state, "_force"))
    /\ fsm_current' = state
    /\ fsm_last' = LastCall("force_state", state, CtxNone, TRUE, "none", "none")

(***************************************************************************)
(* fsm.py : a FiniteStateMachine configured by its user                    *)
(*                                                                         *)
(* FiniteStateMachine("a") with states a and z (terminal) registered with  *)
(* on_enter / on_exit callbacks and state b registered without; every      *)
(* transition is registered with an action.  Callbacks and actions append  *)
(* to a log and do not raise.                                              *)
(***************************************************************************)
GenStates == {"a", "b", "z"}

GenTerminal == {"z"}

\* states registered with on_enter and on_exit
GenWithCallbacks == {"a", "z"}

\* guard=None, a guard reading the context, a guard that raises
GenGuards == {"none", "auto_escalate", "raises"}

GenEvents == {"go", "other"}

GenContexts == {CtxNone, CtxAutoEscalate(TRUE)}

\* add_transition(source, target, event, guard=..., action=..., priority=...);
\* id is the position in self._transitions
GenTr(id, s, t, e, g, p) ==
    [id |-> id, source |-> s, target |-> t, event |-> e, guard |-> g, priority |-> p]

\* the position in s of the first transition whose guard allows, 0 if none
RECURSIVE FirstAllowedIndex(_, _)
FirstAllowedIndex(s, ctx) ==
    IF s = <<>> THEN 0
    ELSE IF IsAllowed(Head(s), ctx) THEN 1
    ELSE LET k == FirstAllowedIndex(Tail(s), ctx) IN IF k = 0 THEN 0 ELSE k + 1

\* candidates left in registration order
KeepRegistrationOrder(s) == s

\* candidates.sort(key=lambda t: t.priority, reverse=True)
GenSort(s) == SortByPriorityDesc(s)

\* trigger(event, context=context) on the configured machine: the error
\* raised, or the transition executed
GenTriggerOutcome(transitions, current, event, context) ==
    LET ctx == ContextOrEmpty(context)
        cands == GenSort(Candidates(transitions, current, event))
        k == FirstAllowedIndex(cands, ctx)
    IN  IF current \in GenTerminal THEN [ok |-> FALSE, err |-> "terminal", id |-> 0, target |-> current]
        ELSE IF cands = <<>> THEN [ok |-> FALSE, err |-> "no_transition", id |-> 0, target |-> current]
        ELSE IF k # 0 THEN [ok |-> TRUE, err |-> "none", id |-> cands[k].id, target |-> cands[k].target]
        ELSE [ok |-> FALSE, err |-> "guards_blocked", id |-> 0, target |-> current]

\* what the entry callback, the action and the exit callback append, in the
\* order entry, action, exit
ExecuteLogEntryFirst(old, id, new) ==
    (IF new \in GenWithCallbacks THEN << <<"enter", new>> >> ELSE <<>>)
    \o << <<"action", id>> >>
    \o (IF old \in GenWithCallbacks THEN << <<"exit", old>> >> ELSE <<>>)

\* _execute_transition: exit callback of the old state, the transition's
\* action, entry callback of the new state
ExecuteLog(old, id, new) ==
    (IF old \in GenWithCallbacks THEN << <<"exit", old>> >> ELSE <<>>)
    \o << <<"action", id>> >>
    \o (IF new \in GenWithCallbacks THEN << <<"enter", new>> >> ELSE <<>>)

GenLastCall(op, event, context, ok, err, id) ==
    [ op |-> op, event |-> event, context |-> context, ok |-> ok, err |-> err, id |-> id,
      pre_state |-> gf_current, pre_history |-> gf_history, pre_log |-> gf_log ]

GenInit ==
    /\ gf_transitions = <<>>
    /\ gf_current = "a"
    /\ gf_history = <<>>
    /\ gf_log = <<>>
    /\ gf_count = 0
    /\ gf_last = [ op |-> "init", event |-> "none", context |-> CtxNone, ok |-> TRUE,
                   err |-> "none", id |-> 0, pre_state |-> "a", pre_history |-> <<>>,
                   pre_log |-> <<>> ]

\* add_transition(source, target, event, guard=guard, action=..., priority=priority);
\* the machine is configured before it is used
GenAddTransition(source, target, event, guard, priority) ==
    /\ Len(gf_transitions) < MaxTransitions
    /\ gf_last.op = "init"
    /\ gf_transitions' = Append(gf_transitions,
                                GenTr(Len(gf_transitions) + 1, source, target, event, guard, priority))
    /\ UNCHANGED <<gf_current, gf_history, gf_log, gf_count, gf_last>>

\* a trigger that runs the exit callback of the current state before it
\* looks at the guards
GenTriggerExitFirst(event, context) ==
    LET o == GenTriggerOutcome(gf_transitions, gf_current, event, context)
        exit == IF gf_current \in GenWithCallbacks THEN << <<"exit", gf_current>> >> ELSE <<>>
    IN  /\ o.ok => Len(gf_history) < MaxGenHistory
        /\ gf_current' = o.target
        /\ gf_history' = IF o.ok THEN Append(gf_history, Record(gf_current, o.target, event))
                         ELSE gf_history
        /\ gf_log' = IF o.ok THEN gf_log \o ExecuteLog(gf_current, o.id, o.target)
                     ELSE IF o.err = "guards_blocked" THEN gf_log \o exit ELSE gf_log
        /\ gf_count' = IF o.ok THEN gf_count + 1 ELSE gf_count
        /\ gf_last' = GenLastCall("trigger", event, context, o.ok, o.err, o.id)
        /\ UNCHANGED gf_transitions

\* trigger(event, context=context)
GenTrigger(event, context) ==
    LET o == GenTriggerOutcome(gf_transitions, gf_current, event, context)
    IN  /\ o.ok => Len(gf_history) < MaxGenHistory
        /\ gf_current' = o.target
        /\ gf_history' = IF o.ok THEN Append(gf_history, Record(gf_current, o.target, event))
                         ELSE gf_history
        /\ gf_log' = IF o.ok THEN gf_log \o ExecuteLog(gf_current, o.id, o.target) ELSE gf_log
        /\ gf_count' = IF o.ok THEN gf_count + 1 ELSE gf_count
        /\ gf_last' = GenLastCall("trigger", event, context, o.ok, o.err, o.id)
        /\ UNCHANGED gf_transitions

\* force_state(state): a history record, no callback
GenForceState(state) ==
    /\ Len(gf_history) < MaxGenHistory
    /\ gf_history' = Append(gf_history, Record(gf_current, state, "_force"))
    /\ gf_current' = state
    /\ gf_count' = gf_count + 1
    /\ gf_last' = GenLastCall("force_state", "_force", CtxNone, TRUE, "none", 0)
    /\ UNCHANGED <<gf_transitions, gf_log>>

(***************************************************************************)
(* negotiation.py : NegotiationManager                                     *)
(***************************************************************************)
\* max_negotiation_rounds: int = 5
DefaultMaxNegotiationRounds == 5

\* The thread negotiations are started on, and a thread that never has one.
NegThreads == {"t1"}

OtherThread == "t2"

\* MessageType values; the last six are handled by no branch of process_response
MsgTypes ==
    {"approval", "acknowledgment", "rejection", "critique", "review", "counter_proposal",
     "clarification", "clarification_response", "objection", "response",
     "plan", "decision", "implementation", "escalation", "vote", "amendment"}

\* metadata["approved"]: the key may be missing
ApprovedValues == {"absent", "true", "false"}

\* a missing approved key read as true
MetaApprovedUnlessFalse(message) == message.approved # "false"

\* the approved flag never read as true
MetaApprovedNever(message) == FALSE

\* message.metadata.get("approved", False)
MetaApproved(message) == message.approved = "true"

\* The messages process_response is called with: every type on the
\* negotiated thread, the approved flag varied where a branch reads it,
\* and a message on a thread without a negotiation.
NegMessages(id) ==
    { [message_id |-> id, thread_id |-> t, msg_type |-> ty, approved |-> a] :
        t \in NegThreads, ty \in MsgTypes \ {"critique", "review"}, a \in {"absent"} }
    \cup
    { [message_id |-> id, thread_id |-> t, msg_type |-> ty, approved |-> a] :
        t \in NegThreads, ty \in {"critique", "review"}, a \in ApprovedValues }
    \cup
    { [message_id |-> id, thread_id |-> OtherThread, msg_type |-> "critique", approved |-> "true"] }

\* a round opened without its proposal
NewNegotiationRoundNoProposal(message) ==
    [ proposal |-> 0, response |-> 0, counter |-> 0,
      clarifications |-> <<>>, status |-> "awaiting_response", resolved |-> FALSE ]

\* NegotiationRound(proposal=..., status=AWAITING_RESPONSE); 0 stands for None
NewNegotiationRound(message) ==
    [ proposal |-> message.message_id, response |-> 0, counter |-> 0,
      clarifications |-> <<>>, status |-> "awaiting_response", resolved |-> FALSE ]

\* Negotiation.current_round / round_count
CurrentRound(neg) == neg.rounds[Len(neg.rounds)]

RoundCount(neg) == Len(neg.rounds)

\* Negotiation.is_stale: the limit reached and the status still "open"
IsStale(neg) == RoundCount(neg) >= neg.max_rounds /\ neg.status = "open"

\* the first round written instead of the current one
SetCurrentFirst(neg, r) == [neg EXCEPT !.rounds[1] = r]

\* current.<field> = ... : the current round is the one written
SetCurrent(neg, r) == [neg EXCEPT !.rounds[Len(neg.rounds)] = r]

\* every branch taken to invoke the escalation callback
EscalateInEveryBranch == [deadlock |-> 0, escalate |-> 1, resolve |-> 0]

\* the callbacks a branch of process_response invokes when it invokes none
NoCallbacks == [deadlock |-> 0, escalate |-> 0, resolve |-> 0]

\* The effect of process_response on the negotiation of the message's
\* thread: the updated negotiation and the callbacks invoked.
ProcessResponse(neg, message) ==
    LET cur == CurrentRound(neg)
        ty == message.msg_type
        id == message.message_id
    IN  IF ty \in {"approval", "acknowledgment"} THEN
            [ neg |-> [SetCurrent(neg, [cur EXCEPT !.response = id, !.status = "resolved_accepted",
                                                  !.resolved = TRUE])
                         EXCEPT !.status = "resolved_accepted", !.resolved = TRUE,
                                !.resolution = "accepted"],
              calls |-> [NoCallbacks EXCEPT !.resolve = 1] ]
        ELSE IF ty = "rejection" THEN
            [ neg |-> [SetCurrent(neg, [cur EXCEPT !.response = id, !.status = "resolved_rejected",
                                                  !.resolved = TRUE])
                         EXCEPT !.status = "resolved_rejected", !.resolved = TRUE,
                                !.resolution = "rejected"],
              calls |-> NoCallbacks ]
        ELSE IF ty \in {"critique", "review"} THEN
            IF MetaApproved(message) THEN
                [ neg |-> [SetCurrent(neg, [cur EXCEPT !.response = id,
                                                      !.status = "resolved_accepted",
                                                      !.resolved = TRUE])
                             EXCEPT !.status = "resolved_accepted", !.resolved = TRUE,
                                    !.resolution = "accepted_by_critic"],
                  calls |-> NoCallbacks ]
            ELSE
                LET dead == RoundCount(neg) >= neg.max_rounds
                IN  [ neg |-> [SetCurrent(neg, [cur EXCEPT !.response = id,
                                                          !.status = "counter_proposed"])
                                 EXCEPT !.status = IF dead THEN "deadlocked"
                                                   ELSE "awaiting_response"],
                      calls |-> [NoCallbacks EXCEPT !.deadlock = IF dead THEN 1 ELSE 0] ]
        ELSE IF ty = "counter_proposal" THEN
            LET closed == SetCurrent(neg, [cur EXCEPT !.counter = id,
                                                      !.status = "counter_proposed"])
                grown == [closed EXCEPT !.rounds = Append(@, NewNegotiationRound(message))]
                dead == RoundCount(grown) >= grown.max_rounds
            IN  [ neg |-> [grown EXCEPT !.status = IF dead THEN "deadlocked"
                                                   ELSE "awaiting_response"],
                  calls |-> [NoCallbacks EXCEPT !.deadlock = IF dead THEN 1 ELSE 0] ]
        ELSE IF ty = "clarification" THEN
            [ neg |-> [SetCurrent(neg, [cur EXCEPT !.clarifications = Append(@, id),
                                                  !.status = "clarification_needed"])
                         EXCEPT !.status = "clarification_needed"],
              calls |-> NoCallbacks ]
        ELSE IF ty = "clarification_response" THEN
            [ neg |-> [SetCurrent(neg, [cur EXCEPT !.clarifications = Append(@, id),
                                                  !.status = "awaiting_response"])
                         EXCEPT !.status = "awaiting_response"],
              calls |-> NoCallbacks ]
        ELSE IF ty = "objection" THEN
            [ neg |-> [SetCurrent(neg, [cur EXCEPT !.response = id, !.status = "escalated"])
                         EXCEPT !.status = "escalated"],
              calls |-> [NoCallbacks EXCEPT !.escalate = 1] ]
        ELSE IF ty = "response" THEN
            [ neg |-> SetCurrent(neg, [cur EXCEPT !.response = id,
                                                 !.status = "awaiting_response"]),
              calls |-> NoCallbacks ]
        ELSE
            [ neg |-> SetCurrent(neg, [cur EXCEPT !.clarifications = Append(@, id)]),
              calls |-> NoCallbacks ]

\* NegotiationManager(max_negotiation_rounds=m), with the three callbacks registered
NegInit(m) ==
    /\ neg_max = m
    /\ neg_tbl = <<>>
    /\ neg_ops = 0
    /\ neg_deadlock_calls = 0
    /\ neg_escalate_calls = 0
    /\ neg_resolve_calls = 0

\* start_negotiation(proposal): a proposal that roots thread t
StartNegotiation(t) ==
    LET proposal == [message_id |-> neg_ops + 1, thread_id |-> t, msg_type |-> "plan",
                     approved |-> "absent"]
        neg == [ negotiation_id |-> proposal.thread_id, thread_id |-> proposal.thread_id,
                 rounds |-> <<NewNegotiationRound(proposal)>>, status |-> "awaiting_response",
                 max_rounds |-> neg_max, resolved |-> FALSE, resolution |-> "none" ]
    IN  /\ neg_ops < MaxNegOps
        /\ neg_ops' = neg_ops + 1
        /\ neg_tbl' = [k \in DOMAIN neg_tbl \cup {t} |-> IF k = t THEN neg ELSE neg_tbl[k]]
        /\ UNCHANGED <<neg_max, neg_deadlock_calls, neg_escalate_calls, neg_resolve_calls>>

\* process_response(message): get_for_thread, then the branch for the type
ProcessResponseCall(message) ==
    /\ neg_ops < MaxNegOps
    /\ neg_ops' = neg_ops + 1
    /\ IF message.thread_id \in DOMAIN neg_tbl
       THEN LET r == ProcessResponse(neg_tbl[message.thread_id], message)
            IN  /\ neg_tbl' = [neg_tbl EXCEPT ![message.thread_id] = r.neg]
                /\ neg_deadlock_calls' = neg_deadlock_calls + r.calls.deadlock
                /\ neg_escalate_calls' = neg_escalate_calls + r.calls.escalate
                /\ neg_resolve_calls' = neg_resolve_calls + r.calls.resolve
       ELSE UNCHANGED <<neg_tbl, neg_deadlock_calls, neg_escalate_calls, neg_resolve_calls>>
    /\ UNCHANGED neg_max

(***************************************************************************)
(* consensus.py : Vote and ConsensusEngine                                 *)
(*                                                                         *)
(* Weights and confidence multipliers are multiples of 0.5, which floats   *)
(* hold exactly; they are kept as integers in units of 0.5, so a weighted  *)
(* score is an integer in units of 0.25.                                   *)
(***************************************************************************)
Voters == {"doer", "critic", "arbiter"}

\* Confidence values, and a string that is none of them
Confidences == {"low", "medium", "high", "certain", "unsure"}

\* weight: float = 1.0, in units of 0.5
DefaultWeight == 2

\* arbiter_weight: float = 1.5, in units of 0.5
ArbiterWeight == 3

\* The weights votes are cast with: the two the engine itself assigns
VoteWeights == {DefaultWeight, ArbiterWeight}

QuorumModes == {"simple_majority", "supermajority", "unanimous", "weighted", "other_mode"}

\* conf_multiplier = {...}.get(self.confidence, 1.0), in units of 0.5
ConfMultiplier(confidence) ==
    CASE confidence = "low" -> 1
      [] confidence = "medium" -> 2
      [] confidence = "high" -> 3
      [] confidence = "certain" -> 4
      [] OTHER -> 2

\* the multiplier left out of the score
WeightedScoreNoConfidence(v) == (IF v.approved THEN 1 ELSE -1) * v.weight * 2

\* Vote.weighted_score, in units of 0.25
WeightedScore(v) == (IF v.approved THEN 1 ELSE -1) * v.weight * ConfMultiplier(v.confidence)

\* sum(f(v) for v in votes)
RECURSIVE SumScores(_)
SumScores(votes) ==
    IF votes = <<>> THEN 0 ELSE WeightedScore(Head(votes)) + SumScores(Tail(votes))

\* sum(1 for v in self._votes if v.approved)
Approvals(votes) == Len(SelectSeq(votes, LAMBDA v : v.approved))

\* quorum tested against one voter fewer than asked for
HasQuorumOffByOne(votes, min_voters) == Len(votes) >= min_voters - 1

\* has_quorum: len(self._votes) >= self.min_voters
HasQuorum(votes, min_voters) == Len(votes) >= min_voters

\* _simple_majority: approvals > total / 2
SimpleMajority(votes) == [approved |-> 2 * Approvals(votes) > Len(votes), dissent |-> <<>>]

\* _supermajority: approvals >= total * 2 / 3
SuperMajority(votes) == [approved |-> 3 * Approvals(votes) >= 2 * Len(votes), dissent |-> <<>>]

\* [v.voter for v in self._votes if not v.approved]
Dissent(votes) ==
    LET no == SelectSeq(votes, LAMBDA v : ~v.approved)
    IN  [i \in 1..Len(no) |-> no[i].voter]

\* unanimity decided as a simple majority
UnanimousAsMajority(votes) ==
    [approved |-> 2 * Approvals(votes) > Len(votes), dissent |-> Dissent(votes)]

\* _unanimous: approvals == total
Unanimous(votes) == [approved |-> Approvals(votes) = Len(votes), dissent |-> Dissent(votes)]

\* _weighted: total_score > 0
Weighted(votes) == [approved |-> SumScores(votes) > 0, dissent |-> <<>>]

\* evaluate(), for an engine built with (quorum_mode, min_voters)
Evaluate(votes, mode, min_voters) ==
    IF ~HasQuorum(votes, min_voters)
    THEN [approved |-> FALSE, has_quorum |-> FALSE, method |-> mode, dissent |-> <<>>]
    ELSE LET result == CASE mode = "simple_majority" -> SimpleMajority(votes)
                         [] mode = "supermajority" -> SuperMajority(votes)
                         [] mode = "unanimous" -> Unanimous(votes)
                         [] mode = "weighted" -> Weighted(votes)
                         [] OTHER -> SimpleMajority(votes)
         IN  [approved |-> result.approved, has_quorum |-> TRUE, method |-> mode,
              dissent |-> result.dissent]

\* no vote: the argument of a call that takes none
NoVote == [voter |-> "none", approved |-> FALSE, confidence |-> "medium", weight |-> DefaultWeight]

ConsInit ==
    /\ cons_votes = <<>>
    /\ cons_last = [op |-> "init", vote |-> NoVote]

\* add_vote that appends without dropping the voter's previous vote
AddVoteKeepPrevious(vote) ==
    /\ cons_votes' = Append(cons_votes, vote)
    /\ cons_last' = [op |-> "add_vote", vote |-> vote]

\* add_vote(vote): drop the voter's previous vote, append the new one
AddVote(vote) ==
    /\ cons_votes' = Append(SelectSeq(cons_votes, LAMBDA v : v.voter # vote.voter), vote)
    /\ cons_last' = [op |-> "add_vote", vote |-> vote]

\* add_vote_from_message(message): the vote is read from the metadata, the
\* weight is arbiter_weight for the Arbiter and 1.0 for the others; it is
\* recorded by add_vote
AddVoteFromMessage(sender, approved, confidence) ==
    AddVote([ voter |-> sender, approved |-> approved, confidence |-> confidence,
              weight |-> IF sender = "arbiter" THEN ArbiterWeight ELSE DefaultWeight ])

\* clear_votes()
ClearVotes ==
    /\ cons_votes' = <<>>
    /\ cons_last' = [op |-> "clear_votes", vote |-> NoVote]

(***************************************************************************)
(* scoring.py : AgentTrustRecord                                           *)
(*                                                                         *)
(* The trust score is a rational number; it is kept exactly, as            *)
(* num / den with den > 0.                                                 *)
(***************************************************************************)
TrustEventTypes == {"vote", "decision", "escalation", "approval", "rejection", "other"}

Rat(n, d) == [num |-> n, den |-> d]

RatLess(a, b) == a.num * b.den < b.num * a.den

RatLeq(a, b) == a.num * b.den <= b.num * a.den

\* max(0.1, min(2.0, score))
Clamp(score) ==
    LET upper == IF RatLess(Rat(2, 1), score) THEN Rat(2, 1) ELSE score
    IN  IF RatLess(upper, Rat(1, 10)) THEN Rat(1, 10) ELSE upper

\* a later threshold for the accuracy term
AccuracyMinVotesLate == 3 + 2

\* if self.total_votes >= 3
AccuracyMinVotes == 3

\* The terms of _recalculate_trust over the common denominator 20 * n * d,
\* with n = total_votes when the accuracy term applies and d =
\* total_decisions when there are decisions (1 otherwise):
\*   base 1.0, acc = (accurate/n - 0.5) * 0.5, ovr = (overridden/d) * 0.3,
\*   esc = 0.2 when escalations/d > 0.5.
TrustTerms(r) ==
    LET counted == r.total_votes >= AccuracyMinVotes /\ r.total_votes > 0
        n == IF counted THEN r.total_votes ELSE 1
        d == IF r.total_decisions > 0 THEN r.total_decisions ELSE 1
    IN  [ den |-> 20 * n * d,
          base |-> 20 * n * d,
          acc |-> IF counted THEN 5 * d * (2 * r.accurate_votes - r.total_votes) ELSE 0,
          ovr |-> IF r.total_decisions > 0 THEN 6 * n * r.overridden_decisions ELSE 0,
          esc |-> IF r.total_decisions > 0 /\ 2 * r.escalations_caused > r.total_decisions
                  THEN 4 * n * d ELSE 0 ]

\* the escalation penalty ten times too large (2.0 for 0.2), and the score
\* stored as computed, without the clamp
RecalculateTrustUnclamped(r) ==
    LET t == TrustTerms(r) IN Rat(t.base + t.acc - t.ovr - 10 * t.esc, t.den)

\* _recalculate_trust
RecalculateTrust(r) ==
    LET t == TrustTerms(r) IN Clamp(Rat(t.base + t.acc - t.ovr - t.esc, t.den))

\* AgentTrustRecord(agent)
NewTrustRecord ==
    [ total_votes |-> 0, accurate_votes |-> 0, total_decisions |-> 0,
      overridden_decisions |-> 0, escalations_caused |-> 0, approvals_given |-> 0,
      rejections_given |-> 0, history_count |-> 0, trust_score |-> Rat(1, 1) ]

NoTrustEvent == [type |-> "none", aligned |-> TRUE]

TrustInit ==
    /\ trust = NewTrustRecord
    /\ trust_pre = NewTrustRecord
    /\ trust_event = NoTrustEvent

\* the counters after record_event(event_type, aligned_with_outcome=aligned)
CountEvent(r, event_type, aligned) ==
    LET h == [r EXCEPT !.history_count = @ + 1]
    IN  CASE event_type = "vote" ->
               [h EXCEPT !.total_votes = @ + 1,
                         !.accurate_votes = IF aligned THEN @ + 1 ELSE @]
          [] event_type = "decision" ->
               [h EXCEPT !.total_decisions = @ + 1,
                         !.overridden_decisions = IF aligned THEN @ ELSE @ + 1]
          [] event_type = "escalation" -> [h EXCEPT !.escalations_caused = @ + 1]
          [] event_type = "approval" -> [h EXCEPT !.approvals_given = @ + 1]
          [] event_type = "rejection" -> [h EXCEPT !.rejections_given = @ + 1]
          [] OTHER -> h

\* record_event(event_type, aligned_with_outcome=aligned)
RecordEvent(event_type, aligned) ==
    LET counted == CountEvent(trust, event_type, aligned)
    IN  /\ trust.history_count < MaxTrustEvents
        /\ trust' = [counted EXCEPT !.trust_score = RecalculateTrust(counted)]
        /\ trust_pre' = trust
        /\ trust_event' = [type |-> event_type, aligned |-> aligned]

(***************************************************************************)
(* interaction.py : ConversationThread and InteractionGraph                *)
(***************************************************************************)
GraphThreads == {"t1", "t2"}

\* The message types register_message is called with: the four is_resolved
\* names, and two it does not name.
GraphMsgTypes == {"approval", "acknowledgment", "critique", "review", "plan", "rejection"}

GraphMessages(id) ==
    { [message_id |-> id, thread_id |-> t, msg_type |-> ty, approved |-> a] :
        t \in GraphThreads, ty \in GraphMsgTypes, a \in ApprovedValues }

\* the message put in front of the thread instead of at its end
ThreadAddFront(messages, message) == <<message>> \o messages

\* ConversationThread.add: self._messages.append(message)
ThreadAdd(messages, message) == Append(messages, message)

\* ConversationThread.is_resolved
IsResolved(messages) ==
    LET last == messages[Len(messages)]
    IN  IF last.msg_type \in {"approval", "acknowledgment"} THEN TRUE
        ELSE IF last.msg_type \in {"critique", "review"} THEN MetaApproved(last)
        ELSE FALSE

\* get_active_threads(), as the set of the thread ids
ActiveThreads == {t \in DOMAIN g_threads : ~IsResolved(g_threads[t])}

GraphInit ==
    /\ g_threads = <<>>
    /\ g_all = <<>>

\* the body of register_message
DoRegisterMessage(message) ==
    LET t == message.thread_id
    IN  /\ g_all' = Append(g_all, message)
        /\ g_threads' = IF t \in DOMAIN g_threads
                        THEN [g_threads EXCEPT ![t] = ThreadAdd(g_threads[t], message)]
                        ELSE [k \in DOMAIN g_threads \cup {t} |->
                                 IF k = t THEN <<message>> ELSE g_threads[k]]

\* register_message(message)
RegisterMessage(message) ==
    /\ Len(g_all) < MaxGraphMessages
    /\ DoRegisterMessage(message)

\* The turns of a conversation: messages of one type, from any role.
TurnSenders == {"doer", "critic", "arbiter"}

TurnMessages(id) ==
    { [message_id |-> id, thread_id |-> t, msg_type |-> "response", approved |-> "absent",
       sender |-> snd] : t \in GraphThreads, snd \in TurnSenders }

\* register_message(message), for the longer conversations
RegisterTurn(message) ==
    /\ Len(g_all) < MaxTurns
    /\ DoRegisterMessage(message)

\* the values detect_circular_arguments is called with
DepthArgs == (0 - 1)..MaxDepthArg

\* the first n messages instead of the last n
Leading(messages, n) == SubSeq(messages, 1, n)

\* thread.messages[-max_depth:] : the last n messages for n > 0, the whole
\* list for n = 0 (-0 is 0), and messages[k:] for n = -k
Trailing(messages, n) ==
    IF n > 0
    THEN SubSeq(messages, IF Len(messages) > n THEN Len(messages) - n + 1 ELSE 1, Len(messages))
    ELSE SubSeq(messages, 1 - n, Len(messages))

\* senders = [m.sender for m in ...]
SendersOf(messages) == [i \in 1..Len(messages) |-> messages[i].sender]

\* sum(1 for i in range(len(senders) - 1) if senders[i] != senders[i + 1])
PairCount(senders) ==
    Cardinality({i \in 1..(Len(senders) - 1) : senders[i] # senders[i + 1]})

\* detect_circular_arguments(max_depth), as the set of the thread ids
DetectCircularArguments(max_depth) ==
    { t \in DOMAIN g_threads :
        /\ ~(Len(g_threads[t]) < max_depth)
        /\ LET senders == SendersOf(Trailing(g_threads[t], max_depth))
           IN  /\ Cardinality({senders[i] : i \in 1..Len(senders)}) = 2
               /\ PairCount(senders) >= max_depth - 1 }

(***************************************************************************)
(* state.py : TableState, through the AgentTable methods of table.py       *)
(***************************************************************************)
Phases == {"plan", "implement", "resolve", "approve"}

\* outcomes finalize is called with
FinalizeOutcomes == {"approved", "aborted"}

\* what st holds while there is no state file
NoState ==
    [ active |-> FALSE, current_round |-> 0, current_phase |-> "plan", max_rounds |-> 0,
      outcome |-> "none", completed |-> FALSE ]

\* TableState.initialize: the state written for a new session
InitialState(max_rounds) ==
    [ active |-> TRUE, current_round |-> 0, current_phase |-> "plan",
      max_rounds |-> max_rounds, outcome |-> "none", completed |-> FALSE ]

\* the limit tested with > instead of >=
RoundLimitReachedStrict(state) == state.current_round > state.max_rounds

\* TableState.new_round: state["current_round"] >= state["max_rounds"]
RoundLimitReached(state) == state.current_round >= state.max_rounds

StLast(op, raised) == [op |-> op, raised |-> raised, pre_exists |-> st_exists, pre |-> st]

StInit ==
    /\ st_exists = FALSE
    /\ st = NoState
    /\ st_last = [op |-> "init", raised |-> FALSE, pre_exists |-> FALSE, pre |-> NoState]

\* AgentTable.initialize(task, max_rounds=max_rounds)
Initialize(max_rounds) ==
    /\ st_exists' = TRUE
    /\ st' = InitialState(max_rounds)
    /\ st_last' = StLast("initialize", FALSE)
    /\ UNCHANGED cons_vars

\* AgentTable.new_round: TableState.new_round (load_active_or_raise, the
\* round limit, the increment), then consensus.clear_votes()
NewRound ==
    /\ st_exists' = st_exists
    /\ IF ~st_exists \/ ~st.active THEN
            /\ st' = st
            /\ st_last' = StLast("new_round", TRUE)
            /\ UNCHANGED cons_vars
       ELSE IF RoundLimitReached(st) THEN
            /\ st' = [st EXCEPT !.outcome = "max_rounds_reached", !.active = FALSE,
                                !.completed = TRUE]
            /\ st_last' = StLast("new_round", TRUE)
            /\ UNCHANGED cons_vars
       ELSE
            /\ st' = [st EXCEPT !.current_round = @ + 1, !.current_phase = "plan"]
            /\ st_last' = StLast("new_round", FALSE)
            /\ cons_votes' = <<>>
            /\ cons_last' = [op |-> "clear_votes", vote |-> NoVote]

\* AgentTable.set_phase(phase)
SetPhase(phase) ==
    /\ st_exists' = st_exists
    /\ IF ~st_exists \/ ~st.active \/ phase \notin Phases
       THEN st' = st /\ st_last' = StLast("set_phase", TRUE)
       ELSE st' = [st EXCEPT !.current_phase = phase] /\ st_last' = StLast("set_phase", FALSE)
    /\ UNCHANGED cons_vars

\* AgentTable.finalize(outcome)
Finalize(outcome) ==
    /\ st_exists' = st_exists
    /\ IF ~st_exists
       THEN st' = st /\ st_last' = StLast("finalize", TRUE)
       ELSE /\ st' = [st EXCEPT !.active = FALSE, !.completed = TRUE, !.outcome = outcome]
            /\ st_last' = StLast("finalize", FALSE)
    /\ UNCHANGED cons_vars

\* AgentTable.reset(): the table directory is removed
Reset ==
    /\ st_exists' = FALSE
    /\ st' = NoState
    /\ st_last' = StLast("reset", FALSE)
    /\ UNCHANGED cons_vars

(***************************************************************************)
(* models.py : AgentMessage                                                *)
(*                                                                         *)
(* Identifiers are positive integers, 0 stands for None.  _short_id() is   *)
(* twelve hex digits of a uuid4; it is modelled as an identifier no        *)
(* message has yet.                                                        *)
(***************************************************************************)
Roles == {"doer", "critic", "arbiter"}

\* _short_id()
ShortId == Len(m_msgs) + 1

\* AgentMessage.__init__: message_id or _short_id(), thread_id or self.message_id
AgentMessageNew(sender, recipient, message_id, reply_to, thread_id) ==
    LET mid == IF message_id # 0 THEN message_id ELSE ShortId
    IN  [ sender |-> sender, recipient |-> recipient, message_id |-> mid,
          reply_to |-> reply_to, thread_id |-> IF thread_id # 0 THEN thread_id ELSE mid ]

\* the reply filed under the id of the message replied to
CreateReplyOwnThread(parent, sender) ==
    AgentMessageNew(sender, parent.sender, 0, parent.message_id, parent.message_id)

\* parent.create_reply(sender, ...)
CreateReply(parent, sender) ==
    AgentMessageNew(sender, parent.sender, 0, parent.message_id, parent.thread_id)

\* AgentMessage.is_thread_root
IsThreadRoot(m) == m.thread_id = m.message_id

MsgInit ==
    /\ m_msgs = <<>>
    /\ m_parent = <<>>

\* AgentMessage(sender, recipient, ..., thread_id=thread_id): a message
\* constructed directly, as a new thread (thread_id None) or in a given one
NewMessage(sender, recipient, thread_id) ==
    /\ Len(m_msgs) < MaxMessages
    /\ m_msgs' = Append(m_msgs, AgentMessageNew(sender, recipient, 0, 0, thread_id))
    /\ m_parent' = Append(m_parent, 0)

\* m_msgs[i].create_reply(sender, ...)
CreateReplyCall(i, sender) ==
    /\ Len(m_msgs) < MaxMessages
    /\ m_msgs' = Append(m_msgs, CreateReply(m_msgs[i], sender))
    /\ m_parent' = Append(m_parent, i)

(***************************************************************************)
(* table.py : AgentTable over its directory                                *)
(*                                                                         *)
(* A world is the table directory (state file, transcript file, trust      *)
(* file) together with the memory of one AgentTable object (its trust      *)
(* records, negotiations and thread index).  Every method is an operator   *)
(* from a world to the world it leaves and whether it raised.  Message     *)
(* contents are "" or "x"; of a message's metadata the key approved is     *)
(* kept.  No hook is registered; the strategy is DefaultStrategy until    *)
(* set_strategy names another.                                             *)
(***************************************************************************)
\* TableState.initialize: the further keys of a new state
TblInitialState(max_rounds, auto_escalate) ==
    [ active |-> TRUE, current_round |-> 0, current_phase |-> "plan",
      max_rounds |-> max_rounds, outcome |-> "none", completed |-> FALSE,
      total_messages |-> 0, escalation_count |-> 0, auto_escalate |-> auto_escalate,
      rounds_summary |-> <<>> ]

\* what a world holds for the state while there is no state file
TblNoState ==
    [ active |-> FALSE, current_round |-> 0, current_phase |-> "plan", max_rounds |-> 0,
      outcome |-> "none", completed |-> FALSE,
      total_messages |-> 0, escalation_count |-> 0, auto_escalate |-> FALSE,
      rounds_summary |-> <<>> ]

\* an empty directory, and an AgentTable constructed over it
EmptyWorld ==
    [ exists |-> FALSE, state |-> TblNoState, transcript |-> <<>>,
      trust_saved |-> FALSE, trust_file |-> <<>>, next_id |-> 1,
      records |-> <<>>, negs |-> <<>>, threads |-> <<>>, strategy |-> "default" ]

Ok(w) == [w |-> w, raised |-> FALSE]

Raise(w) == [w |-> w, raised |-> TRUE]

\* AgentTable.is_active(): TableState.is_active, the state file exists
IsActive(w) == w.exists

\* state = self.get_state(); not (not state or not state.get("active"))
Active(w) == w.exists /\ w.state.active

\* ---- messages and the transcript file ----
\* AgentMessage(...) as the table builds it; the id is one no message has
TblMessage(w, sender, recipient, msg_type, content, round_number, phase, approved, reply_to, thread_id) ==
    LET a == AgentMessageNew(sender, recipient, w.next_id, reply_to, thread_id)
    IN  [ sender |-> a.sender, recipient |-> a.recipient, message_id |-> a.message_id,
          reply_to |-> a.reply_to, thread_id |-> a.thread_id,
          msg_type |-> msg_type, content |-> content, round_number |-> round_number,
          phase |-> phase, approved |-> approved ]

\* AgentMessage.create_reply: round, phase and thread of the message replied to
TblReply(w, parent, sender, msg_type, content) ==
    TblMessage(w, sender, parent.sender, msg_type, content, parent.round_number,
               parent.phase, "absent", parent.message_id, parent.thread_id)

\* AgentMessage.to_dict: reply_to is written only when it is not None
ToDict(m) ==
    IF m.reply_to = 0
    THEN [ sender |-> m.sender, recipient |-> m.recipient, msg_type |-> m.msg_type,
           content |-> m.content, round_number |-> m.round_number, phase |-> m.phase,
           approved |-> m.approved, message_id |-> m.message_id, thread_id |-> m.thread_id ]
    ELSE [ sender |-> m.sender, recipient |-> m.recipient, msg_type |-> m.msg_type,
           content |-> m.content, round_number |-> m.round_number, phase |-> m.phase,
           approved |-> m.approved, message_id |-> m.message_id, thread_id |-> m.thread_id,
           reply_to |-> m.reply_to ]

\* AgentMessage.from_dict: a missing reply_to is None, a missing thread_id
\* becomes the message id
FromDict(d) ==
    LET a == AgentMessageNew(d.sender, d.recipient, d.message_id,
                             IF "reply_to" \in DOMAIN d THEN d.reply_to ELSE 0, d.thread_id)
    IN  [ sender |-> a.sender, recipient |-> a.recipient, message_id |-> a.message_id,
          reply_to |-> a.reply_to, thread_id |-> a.thread_id,
          msg_type |-> d.msg_type, content |-> d.content, round_number |-> d.round_number,
          phase |-> d.phase, approved |-> d.approved ]

\* TranscriptStore._query(sender=..., msg_type=...): "" stands for no filter
Query(transcript, sender, msg_type) ==
    LET all == [i \in 1..Len(transcript) |-> FromDict(transcript[i])]
    IN  SelectSeq(all, LAMBDA m : /\ (sender # "" => m.sender = sender)
                                  /\ (msg_type # "" => m.msg_type = msg_type))

\* get_messages(sender=..., msg_type=...)
GetMessages(w, sender, msg_type) == Query(w.transcript, sender, msg_type)

\* the first match instead of the last
FirstOf(messages) == IF messages = <<>> THEN <<>> ELSE <<messages[1]>>

\* get_last_message: messages[-1] if messages else None, as a sequence of
\* length at most 1
LastOf(messages) == IF messages = <<>> THEN <<>> ELSE <<messages[Len(messages)]>>

GetLastMessage(w, sender, msg_type) == LastOf(Query(w.transcript, sender, msg_type))

\* ---- validators.py ----
\* ROLE_PERMISSIONS
RolePermissions(sender) ==
    CASE sender = "doer" ->
           {"plan", "implementation", "response", "escalation", "counter_proposal",
            "clarification", "clarification_response", "amendment", "acknowledgment",
            "objection"}
      [] sender = "critic" ->
           {"critique", "review", "vote", "counter_proposal", "clarification",
            "clarification_response", "objection", "acknowledgment", "response"}
      [] sender = "arbiter" ->
           {"decision", "approval", "rejection", "vote", "clarification",
            "clarification_response", "acknowledgment", "response"}
      [] OTHER -> {}

\* PHASE_MESSAGES
PhaseMessages(phase) ==
    CASE phase = "plan" ->
           {"plan", "critique", "clarification", "clarification_response",
            "counter_proposal", "response", "objection", "acknowledgment", "escalation"}
      [] phase = "implement" ->
           {"implementation", "review", "clarification", "clarification_response",
            "counter_proposal", "response", "objection", "acknowledgment", "escalation"}
      [] phase = "resolve" ->
           {"escalation", "decision", "counter_proposal", "vote", "clarification",
            "clarification_response", "response", "objection", "acknowledgment"}
      [] phase = "approve" ->
           {"approval", "rejection", "clarification", "clarification_response",
            "response", "acknowledgment"}
      [] OTHER -> {}

\* validate_message with role and phase mismatches counted as errors
ValidateMessageStrict(message, state) ==
    LET role == message.msg_type # "" /\ message.msg_type \notin RolePermissions(message.sender)
        phase == /\ message.msg_type # ""
                 /\ PhaseMessages(state.current_phase) # {}
                 /\ message.msg_type \notin PhaseMessages(state.current_phase)
    IN  [ valid |-> /\ message.sender # ""
                    /\ message.recipient # ""
                    /\ message.content # ""
                    /\ message.msg_type # ""
                    /\ state.active
                    /\ ~role
                    /\ ~phase,
          warnings |-> 0 ]

\* MessageValidator.validate_message(message, state), strict=False: the
\* errors decide valid, role and phase mismatches are warnings
ValidateMessage(message, state) ==
    LET role == message.msg_type # "" /\ message.msg_type \notin RolePermissions(message.sender)
        phase == /\ message.msg_type # ""
                 /\ PhaseMessages(state.current_phase) # {}
                 /\ message.msg_type \notin PhaseMessages(state.current_phase)
        round == message.round_number > state.current_round
    IN  [ valid |-> /\ message.sender # ""
                    /\ message.recipient # ""
                    /\ message.content # ""
                    /\ message.msg_type # ""
                    /\ state.active,
          warnings |-> (IF role THEN 1 ELSE 0) + (IF phase THEN 1 ELSE 0)
                       + (IF round THEN 1 ELSE 0) ]

\* ---- scoring.py : TrustScoring over trust-scores.json ----
\* round(x, 3): the nearest multiple of 1/1000, a tie to the even one
Round3(r) ==
    LET n == r.num * 1000
        q == n \div r.den
        rem == n % r.den
        up == IF 2 * rem > r.den THEN 1
              ELSE IF 2 * rem = r.den THEN q % 2
              ELSE 0
    IN  Rat(q + up, 1000)

\* AgentTrustRecord.to_dict, with the history _save adds
TrustToDict(r) == [r EXCEPT !.trust_score = Round3(r.trust_score)]

\* AgentTrustRecord.from_dict
TrustFromDict(d) ==
    [ total_votes |-> d.total_votes, accurate_votes |-> d.accurate_votes,
      total_decisions |-> d.total_decisions, overridden_decisions |-> d.overridden_decisions,
      escalations_caused |-> d.escalations_caused, approvals_given |-> d.approvals_given,
      rejections_given |-> d.rejections_given, history_count |-> d.history_count,
      trust_score |-> d.trust_score ]

\* TrustScoring._load: nothing when the file does not exist
LoadTrust(w) ==
    IF w.trust_saved THEN [a \in DOMAIN w.trust_file |-> TrustFromDict(w.trust_file[a])]
    ELSE <<>>

\* TrustScoring._get_or_create
GetOrCreate(records, agent) ==
    IF agent \in DOMAIN records THEN records[agent] ELSE NewTrustRecord

\* TrustScoring.get_record(agent).to_dict() of a table constructed now
TrustOnDisk(w, agent) == GetOrCreate(LoadTrust(w), agent)

\* TrustScoring.record_event: the record is updated and every record saved
TblRecordEvent(w, agent, event_type, aligned) ==
    LET counted == CountEvent(GetOrCreate(w.records, agent), event_type, aligned)
        rec == [counted EXCEPT !.trust_score = RecalculateTrust(counted)]
        records == [a \in DOMAIN w.records \cup {agent} |->
                       IF a = agent THEN rec ELSE w.records[a]]
    IN  [w EXCEPT !.records = records,
                  !.trust_saved = TRUE,
                  !.trust_file = [a \in DOMAIN records |-> TrustToDict(records[a])]]

\* ---- interaction.py and negotiation.py inside the table ----
\* InteractionGraph.register_message
TblRegister(w, message) ==
    LET t == message.thread_id
    IN  [w EXCEPT !.threads =
            IF t \in DOMAIN w.threads
            THEN [w.threads EXCEPT ![t] = ThreadAdd(w.threads[t], message)]
            ELSE [k \in DOMAIN w.threads \cup {t} |->
                     IF k = t THEN <<message>> ELSE w.threads[k]]]

\* NegotiationManager.start_negotiation(proposal)
TblStartNegotiation(w, proposal) ==
    LET t == proposal.thread_id
        neg == [ negotiation_id |-> t, thread_id |-> t,
                 rounds |-> <<NewNegotiationRound(proposal)>>, status |-> "awaiting_response",
                 max_rounds |-> DefaultMaxNegotiationRounds, resolved |-> FALSE,
                 resolution |-> "none" ]
    IN  [w EXCEPT !.negs = [k \in DOMAIN w.negs \cup {t} |-> IF k = t THEN neg ELSE w.negs[k]]]

\* ---- AgentTable methods ----
RECURSIVE DoSendMessage(_, _)

RECURSIVE DoEscalate(_, _)

\* _on_negotiation_deadlock: escalate when the session is active
OnNegotiationDeadlock(w) == IF Active(w) THEN DoEscalate(w, "x") ELSE Ok(w)

\* _on_negotiation_escalate: escalate when the session is active
OnNegotiationEscalate(w) == IF Active(w) THEN DoEscalate(w, "x") ELSE Ok(w)

\* the callbacks process_response fires once the negotiation is updated
FireCallbacks(w, calls) ==
    IF calls.deadlock = 1 THEN OnNegotiationDeadlock(w)
    ELSE IF calls.escalate = 1 THEN OnNegotiationEscalate(w)
    ELSE Ok(w)

\* NegotiationManager.process_response(message) with the table's callbacks
TblProcessResponse(w, message) ==
    IF message.thread_id \notin DOMAIN w.negs THEN Ok(w)
    ELSE FireCallbacks([w EXCEPT !.negs[message.thread_id] =
                                    ProcessResponse(@, message).neg],
                       ProcessResponse(w.negs[message.thread_id], message).calls)

\* the end of send_message: the state loaded at entry is the one saved
SaveCounters(r, state) ==
    IF r.raised THEN r
    ELSE Ok([r.w EXCEPT !.state = [state EXCEPT !.total_messages = @ + 1]])

\* MessageRouter.resolve_recipient with the default rules, by priority:
\* escalation_to_arbiter (100), the rejections to the arbiter (10), the two
\* rules without a target (5), then the rules of priority 0; metadata
\* without the key approved counts as approving
ResolveRecipient(message, state) ==
    IF message.msg_type = "escalation" THEN "arbiter"
    ELSE IF /\ message.sender = "critic"
            /\ message.msg_type \in {"critique", "review"}
            /\ message.approved = "false"
            /\ state.auto_escalate THEN "arbiter"
    ELSE IF message.msg_type \in {"counter_proposal", "clarification"} THEN message.recipient
    ELSE IF message.sender = "doer" /\ message.msg_type \in {"plan", "implementation"}
         THEN "critic"
    ELSE IF /\ message.sender = "critic"
            /\ message.msg_type \in {"critique", "review"}
            /\ message.approved # "false" THEN "doer"
    ELSE IF /\ message.sender = "arbiter"
            /\ message.msg_type \in {"decision", "approval", "rejection"} THEN "doer"
    ELSE message.recipient

\* send_message, routing: an empty recipient is replaced by a resolved one
\* that is not empty
Route(message, state) ==
    IF message.recipient = "" /\ ResolveRecipient(message, state) # ""
    THEN [message EXCEPT !.recipient = ResolveRecipient(message, state)]
    ELSE message

\* send_message once the message is routed: the transcript, the graph, the
\* negotiation, the counters
Deliver(w, m, state) ==
    SaveCounters(
        TblProcessResponse(
            TblRegister([w EXCEPT !.transcript = Append(@, ToDict(m)),
                                  !.next_id = @ + 1], m),
            m),
        state)

\* send_message(message)
DoSendMessage(w, message) ==
    IF ~Active(w) THEN Raise(w)
    ELSE LET state == w.state
             m == IF message.round_number = 0
                  THEN [message EXCEPT !.round_number = state.current_round]
                  ELSE message
         IN  IF ~ValidateMessage(m, state).valid THEN Raise(w)
             ELSE Deliver(w, Route(m, state), state)

\* the end of escalate: the critic's trust record counts the escalation
ScoreEscalation(r) ==
    IF r.raised THEN r ELSE Ok(TblRecordEvent(r.w, "critic", "escalation", TRUE))

\* escalate(reason)
DoEscalate(w, reason) ==
    IF ~Active(w) THEN Raise(w)
    ELSE LET saved == [w EXCEPT !.state.escalation_count = @ + 1,
                                !.state.current_phase = "resolve"]
         IN  ScoreEscalation(
                DoSendMessage(saved,
                              TblMessage(saved, "doer", "arbiter", "escalation", reason,
                                         saved.state.current_round, "resolve", "absent", 0, 0)))

\* initialize(task, max_rounds=..., auto_escalate=...)
DoInitialize(w, max_rounds, auto_escalate) ==
    Ok([w EXCEPT !.exists = TRUE, !.state = TblInitialState(max_rounds, auto_escalate)])

\* new_round that leaves the phase where it was
DoNewRoundKeepPhase(w) ==
    IF ~Active(w) THEN Raise(w)
    ELSE IF RoundLimitReached(w.state) THEN
        Raise([w EXCEPT !.state.outcome = "max_rounds_reached", !.state.active = FALSE,
                        !.state.completed = TRUE])
    ELSE Ok([w EXCEPT !.state.current_round = @ + 1])

\* new_round: TableState.new_round
DoNewRound(w) ==
    IF ~Active(w) THEN Raise(w)
    ELSE IF RoundLimitReached(w.state) THEN
        Raise([w EXCEPT !.state.outcome = "max_rounds_reached", !.state.active = FALSE,
                        !.state.completed = TRUE])
    ELSE Ok([w EXCEPT !.state.current_round = @ + 1, !.state.current_phase = "plan"])

\* protocol.py, ALLOWED_TRANSITIONS
AllowedTransitions(phase) ==
    CASE phase = "plan" -> {"implement", "resolve"}
      [] phase = "implement" -> {"resolve", "approve"}
      [] phase = "resolve" -> {"approve", "plan"}
      [] phase = "approve" -> {"plan"}
      [] OTHER -> {}

\* ProtocolEngine.advance_phase: the approve phase stays
NextPhase(phase) ==
    CASE phase = "plan" -> "implement"
      [] phase = "implement" -> "resolve"
      [] phase = "resolve" -> "approve"
      [] phase = "approve" -> "approve"
      [] OTHER -> "plan"

\* advance_phase without the test that the session is active
DoAdvancePhaseUnchecked(w) ==
    IF ~w.exists THEN Raise(w)
    ELSE Ok([w EXCEPT !.state.current_phase = NextPhase(@)])

\* advance_phase
DoAdvancePhase(w) ==
    IF ~Active(w) THEN Raise(w)
    ELSE Ok([w EXCEPT !.state.current_phase = NextPhase(@)])

\* set_phase(phase)
DoSetPhase(w, phase) ==
    IF ~Active(w) \/ phase \notin Phases THEN Raise(w)
    ELSE Ok([w EXCEPT !.state.current_phase = phase])

\* submit_plan(plan_content)
\* a method's last save: the phase it leaves the session in
EnterPhase(r, phase) ==
    IF r.raised THEN r ELSE Ok([r.w EXCEPT !.state.current_phase = phase])

\* the end of submit_plan and submit_implementation: a negotiation starts
StartAfterSend(r, msg) == IF r.raised THEN r ELSE Ok(TblStartNegotiation(r.w, msg))

DoSubmitPlan(w, content) ==
    IF ~Active(w) THEN Raise(w)
    ELSE LET msg == TblMessage(w, "doer", "critic", "plan", content,
                               w.state.current_round, "plan", "absent", 0, 0)
         IN  StartAfterSend(DoSendMessage(w, msg), msg)

\* strategies.py, _REGISTRY
StrategyNames == {"default", "strict", "lenient", "democratic", "autocratic"}

\* state.get("_critique_rejections", 0)
CritiqueRejections(state) ==
    IF "_critique_rejections" \in DOMAIN state THEN state["_critique_rejections"] ELSE 0

\* the rule of the default strategy, whatever the strategy
ShouldEscalateHardcoded(strategy, state, approved) == ~approved /\ state.auto_escalate

\* <strategy>.should_escalate(state, critique_approved)
ShouldEscalate(strategy, state, approved) ==
    CASE strategy = "default" -> ~approved /\ state.auto_escalate
      [] strategy = "lenient" -> IF approved THEN FALSE ELSE CritiqueRejections(state) >= 2
      [] OTHER -> TRUE

\* set_strategy(name), for a registered name
DoSetStrategy(w, name) == Ok([w EXCEPT !.strategy = name])

\* the end of submit_critique and submit_review: the trust event, then the
\* escalation when the strategy asks for it
ScoreCritic(r, event_type, approved, escalate) ==
    IF r.raised THEN r
    ELSE IF escalate
    THEN DoEscalate(TblRecordEvent(r.w, "critic", event_type, approved), "x")
    ELSE Ok(TblRecordEvent(r.w, "critic", event_type, approved))

\* what submit_critique and submit_review do after building their message:
\* the strategy is asked with the state loaded at entry
CriticSubmit(w, msg, event_type, approved) ==
    ScoreCritic(DoSendMessage(w, msg), event_type, approved,
                ShouldEscalate(w.strategy, w.state, approved))

\* submit_critique(content, approved=...): a reply to the doer's last message
DoSubmitCritique(w, content, approved) ==
    IF ~Active(w) THEN Raise(w)
    ELSE LET last == GetLastMessage(w, "doer", "")
             msg == TblMessage(w, "critic", "doer", "critique", content,
                               w.state.current_round, w.state.current_phase,
                               IF approved THEN "true" ELSE "false",
                               IF last = <<>> THEN 0 ELSE last[1].message_id,
                               IF last = <<>> THEN 0 ELSE last[1].thread_id)
         IN  CriticSubmit(w, msg, "critique", approved)

\* submit_implementation(notes)
DoSubmitImplementation(w, content) ==
    IF ~Active(w) THEN Raise(w)
    ELSE LET msg == TblMessage(w, "doer", "critic", "implementation", content,
                               w.state.current_round, "implement", "absent", 0, 0)
         IN  EnterPhase(StartAfterSend(DoSendMessage(w, msg), msg), "implement")

\* submit_review(content, approved=...): a reply to the last implementation
DoSubmitReview(w, content, approved) ==
    IF ~Active(w) THEN Raise(w)
    ELSE LET last == GetLastMessage(w, "doer", "implementation")
             msg == TblMessage(w, "critic", "doer", "review", content,
                               w.state.current_round, "implement",
                               IF approved THEN "true" ELSE "false",
                               IF last = <<>> THEN 0 ELSE last[1].message_id,
                               IF last = <<>> THEN 0 ELSE last[1].thread_id)
         IN  CriticSubmit(w, msg, "review", approved)

\* the end of submit_decision: the side not taken is found misaligned
ScoreDecision(r, side_with) ==
    IF r.raised \/ side_with \notin {"doer", "critic"} THEN r
    ELSE Ok(TblRecordEvent(r.w, IF side_with = "doer" THEN "critic" ELSE "doer",
                           "decision", FALSE))

\* submit_decision(content, side_with=...)
DoSubmitDecision(w, content, side_with) ==
    IF ~Active(w) THEN Raise(w)
    ELSE LET msg == TblMessage(w, "arbiter", "doer", "decision", content,
                               w.state.current_round, "resolve", "absent", 0, 0)
         IN  ScoreDecision(EnterPhase(DoSendMessage(w, msg), "approve"), side_with)

\* summary = {"round": ..., "outcome": ..., ["reason": reason]}; the time of
\* completion is left out
RoundSummary(state, outcome, reason) ==
    IF outcome = "rejected"
    THEN [round |-> state.current_round, outcome |-> outcome, reason |-> reason]
    ELSE [round |-> state.current_round, outcome |-> outcome]

\* the round's summary put in the place of the list
SumUpRoundAnew(r, outcome, reason) ==
    IF r.raised THEN r
    ELSE Ok(TblRecordEvent(
              [r.w EXCEPT !.state.rounds_summary = <<RoundSummary(r.w.state, outcome, reason)>>],
              "arbiter", IF outcome = "approved" THEN "approval" ELSE "rejection", TRUE))

\* the end of submit_approval and submit_rejection: the round's summary
\* and the arbiter's trust event
SumUpRound(r, outcome, reason) ==
    IF r.raised THEN r
    ELSE Ok(TblRecordEvent(
              [r.w EXCEPT !.state.rounds_summary =
                  Append(@, RoundSummary(r.w.state, outcome, reason))],
              "arbiter", IF outcome = "approved" THEN "approval" ELSE "rejection", TRUE))

\* what submit_approval and submit_rejection do after building their message
ArbiterSubmit(w, msg, outcome) ==
    SumUpRound(DoSendMessage(w, msg), outcome, msg.content)

\* submit_approval(notes): empty notes become a default text
DoSubmitApproval(w, notes) ==
    IF ~Active(w) THEN Raise(w)
    ELSE ArbiterSubmit(w, TblMessage(w, "arbiter", "doer", "approval",
                                     IF notes = "" THEN "x" ELSE notes,
                                     w.state.current_round, "approve", "true", 0, 0),
                       "approved")

\* submit_rejection(reason)
DoSubmitRejection(w, reason) ==
    IF ~Active(w) THEN Raise(w)
    ELSE ArbiterSubmit(w, TblMessage(w, "arbiter", "doer", "rejection", reason,
                                     w.state.current_round, "approve", "false", 0, 0),
                       "rejected")

\* _infer_recipient
InferRecipient(sender) == IF sender = "doer" THEN "critic" ELSE "doer"

\* submit_counter_proposal / submit_objection(sender, text, in_reply_to=...):
\* in_reply_to is a sequence of length at most 1
DoSubmitTyped(w, msg_type, sender, content, in_reply_to) ==
    IF ~Active(w) THEN Raise(w)
    ELSE DoSendMessage(w,
            IF in_reply_to # <<>>
            THEN TblReply(w, in_reply_to[1], sender, msg_type, content)
            ELSE TblMessage(w, sender, InferRecipient(sender), msg_type, content,
                            w.state.current_round, w.state.current_phase, "absent", 0, 0))

DoSubmitCounterProposal(w, sender, content, in_reply_to) ==
    DoSubmitTyped(w, "counter_proposal", sender, content, in_reply_to)

DoSubmitObjection(w, sender, content, in_reply_to) ==
    DoSubmitTyped(w, "objection", sender, content, in_reply_to)

DoSubmitResponse(w, sender, content, in_reply_to) ==
    DoSubmitTyped(w, "response", sender, content, in_reply_to)

DoRequestClarification(w, sender, question, in_reply_to) ==
    DoSubmitTyped(w, "clarification", sender, question, in_reply_to)

DoSubmitClarificationResponse(w, sender, answer, in_reply_to) ==
    DoSubmitTyped(w, "clarification_response", sender, answer, in_reply_to)

\* submit_acknowledgment: the content is notes or "Acknowledged.", never empty
DoSubmitAcknowledgment(w, sender, in_reply_to) ==
    DoSubmitTyped(w, "acknowledgment", sender, "x", in_reply_to)

\* finalize(outcome)
DoFinalize(w, outcome) ==
    IF ~w.exists THEN Raise(w)
    ELSE Ok([w EXCEPT !.state.active = FALSE, !.state.completed = TRUE,
                      !.state.outcome = outcome])

\* reset(): shutil.rmtree(self.table_dir); the object keeps its memory
DoReset(w) ==
    Ok([w EXCEPT !.exists = FALSE, !.state = TblNoState, !.transcript = <<>>,
                 !.trust_saved = FALSE, !.trust_file = <<>>])

\* NegotiationManager.summary(), without the average
NegSummary(w) ==
    LET with(S) == Cardinality({t \in DOMAIN w.negs : w.negs[t].status \in S})
        total == Cardinality(DOMAIN w.negs)
        resolved == with({"resolved_accepted", "resolved_rejected"})
        deadlocked == with({"deadlocked"})
        escalated == with({"escalated"})
    IN  [ total |-> total, active |-> total - resolved - deadlocked - escalated,
          resolved |-> resolved, deadlocked |-> deadlocked, escalated |-> escalated ]

\* ConversationThread.has_disagreement
HasDisagreement(messages) ==
    /\ \E i \in 1..Len(messages) : messages[i].approved = "true"
    /\ \E i \in 1..Len(messages) : messages[i].approved = "false"

\* the "negotiations", "threads" and "fsm_state" entries of status(); the
\* machine is built by the constructor and no method of the table triggers
\* it or forces its state
TblStatus(w) ==
    [ negotiations |-> NegSummary(w),
      fsm_state |-> BuildProtocolFsm.initial,
      threads |-> [ total |-> Cardinality(DOMAIN w.threads),
                    active |-> Cardinality({t \in DOMAIN w.threads : ~IsResolved(w.threads[t])}),
                    disputed |-> Cardinality({t \in DOMAIN w.threads :
                                                HasDisagreement(w.threads[t])}) ] ]

\* ---- the calls made on the table ----
\* the memory of an AgentTable constructed now over the directory of w
Fresh(w) ==
    [w EXCEPT !.records = LoadTrust(w), !.negs = <<>>, !.threads = <<>>, !.strategy = "default"]

\* the directory of w alone
Disk(w) ==
    [w EXCEPT !.records = <<>>, !.negs = <<>>, !.threads = <<>>, !.strategy = "default"]

\* messages handed to send_message as (sender, recipient, type, content):
\* a well-formed one, one of a type its sender's role may not send, one of
\* a type the plan phase does not expect, and one with each field empty
CustomMessages ==
    { <<"doer", "critic", "response", "x">>,
      <<"doer", "critic", "approval", "x">>,
      <<"arbiter", "doer", "decision", "x">>,
      <<"", "critic", "response", "x">>,
      <<"doer", "", "response", "x">>,
      <<"doer", "", "plan", "x">>,
      <<"doer", "critic", "", "x">>,
      <<"doer", "critic", "response", "">> }

Custom(w, c) == TblMessage(w, c[1], c[2], c[3], c[4], 0, "", "absent", 0, 0)

Contents == {"", "x"}

\* the max_rounds initialize is called with
MaxRoundsChoices == {0, 1}

TblInit ==
    /\ tb = EmptyWorld
    /\ pp = EmptyWorld
    /\ tb_last = [op |-> "init", raised |-> FALSE, arg |-> <<>>, calls |-> 0]

\* one call: on the long-lived table, and on a table constructed for the
\* call over the other directory
Step(op, arg, r, rp) ==
    /\ tb_last.calls < MaxTableCalls
    /\ tb' = r.w
    /\ pp' = Disk(rp.w)
    /\ tb_last' = [op |-> op, raised |-> r.raised, arg |-> arg, calls |-> tb_last.calls + 1]

CallInitialize(max_rounds, auto_escalate) ==
    Step("initialize", <<>>, DoInitialize(tb, max_rounds, auto_escalate),
         DoInitialize(Fresh(pp), max_rounds, auto_escalate))

CallNewRound == Step("new_round", <<>>, DoNewRound(tb), DoNewRound(Fresh(pp)))

CallSendMessage(c) ==
    Step("send_message", c, DoSendMessage(tb, Custom(tb, c)),
            DoSendMessage(Fresh(pp), Custom(pp, c)))

CallSubmitPlan(content) ==
    Step("submit_plan", <<>>, DoSubmitPlan(tb, content), DoSubmitPlan(Fresh(pp), content))

CallSubmitCritique(approved) ==
    Step("submit_critique", <<>>, DoSubmitCritique(tb, "x", approved),
            DoSubmitCritique(Fresh(pp), "x", approved))

CallSubmitImplementation ==
    Step("submit_implementation", <<>>, DoSubmitImplementation(tb, "x"),
            DoSubmitImplementation(Fresh(pp), "x"))

CallSubmitReview(approved) ==
    Step("submit_review", <<>>, DoSubmitReview(tb, "x", approved),
            DoSubmitReview(Fresh(pp), "x", approved))

\* escalate(reason); reason defaults to ""
CallEscalate(reason) ==
    Step("escalate", <<>>, DoEscalate(tb, reason), DoEscalate(Fresh(pp), reason))

CallSubmitDecision(side_with) ==
    Step("submit_decision", <<>>, DoSubmitDecision(tb, "x", side_with),
            DoSubmitDecision(Fresh(pp), "x", side_with))

CallSubmitApproval ==
    Step("submit_approval", <<>>, DoSubmitApproval(tb, ""), DoSubmitApproval(Fresh(pp), ""))

CallSubmitRejection ==
    Step("submit_rejection", <<>>, DoSubmitRejection(tb, "x"),
            DoSubmitRejection(Fresh(pp), "x"))

\* the caller replies to the last message of the transcript, or to none
CallSubmitObjection(reply) ==
    Step("submit_objection", <<>>,
            DoSubmitObjection(tb, "critic", "x",
                              IF reply THEN GetLastMessage(tb, "", "") ELSE <<>>),
            DoSubmitObjection(Fresh(pp), "critic", "x",
                              IF reply THEN GetLastMessage(pp, "", "") ELSE <<>>))

CallSubmitCounterProposal(reply) ==
    Step("submit_counter_proposal", <<>>,
            DoSubmitCounterProposal(tb, "critic", "x",
                                    IF reply THEN GetLastMessage(tb, "", "") ELSE <<>>),
            DoSubmitCounterProposal(Fresh(pp), "critic", "x",
                                    IF reply THEN GetLastMessage(pp, "", "") ELSE <<>>))

CallSubmitResponse(reply) ==
    Step("submit_response", <<>>,
            DoSubmitResponse(tb, "doer", "x",
                             IF reply THEN GetLastMessage(tb, "", "") ELSE <<>>),
            DoSubmitResponse(Fresh(pp), "doer", "x",
                             IF reply THEN GetLastMessage(pp, "", "") ELSE <<>>))

CallRequestClarification ==
    Step("request_clarification", <<>>,
            DoRequestClarification(tb, "arbiter", "x", <<>>),
            DoRequestClarification(Fresh(pp), "arbiter", "x", <<>>))

CallSubmitClarificationResponse ==
    Step("submit_clarification_response", <<>>,
            DoSubmitClarificationResponse(tb, "doer", "x", <<>>),
            DoSubmitClarificationResponse(Fresh(pp), "doer", "x", <<>>))

CallSubmitAcknowledgment(reply) ==
    Step("submit_acknowledgment", <<>>,
            DoSubmitAcknowledgment(tb, "doer",
                                   IF reply THEN GetLastMessage(tb, "", "") ELSE <<>>),
            DoSubmitAcknowledgment(Fresh(pp), "doer",
                                   IF reply THEN GetLastMessage(pp, "", "") ELSE <<>>))

CallAdvancePhase == Step("advance_phase", <<>>, DoAdvancePhase(tb), DoAdvancePhase(Fresh(pp)))

CallSetPhase(phase) ==
    Step("set_phase", <<>>, DoSetPhase(tb, phase), DoSetPhase(Fresh(pp), phase))

CallFinalize(outcome) ==
    Step("finalize", <<>>, DoFinalize(tb, outcome), DoFinalize(Fresh(pp), outcome))

CallReset == Step("reset", <<>>, DoReset(tb), DoReset(Fresh(pp)))

(***************************************************************************)
(* Specifications: one per component                                       *)
(***************************************************************************)
Init ==
    /\ FsmInit
    /\ NegInit(DefaultMaxNegotiationRounds)
    /\ ConsInit
    /\ TrustInit
    /\ GraphInit
    /\ StInit
    /\ MsgInit
    /\ GenInit
    /\ TblInit

NextFSM ==
    \/ \E e \in Events, c \in Contexts : Trigger(e, c)
    \/ \E e \in Events, c \in Contexts : TryTrigger(e, c)
    \/ \E s \in ForceTargets : ForceState(s)

SpecFSM == Init /\ [][NextFSM /\ UNCHANGED <<neg_vars, cons_vars, trust_vars, graph_vars, st_vars, msg_vars, gen_vars, tbl_vars>>]_vars

\* a manager built with any max_negotiation_rounds up to the bound
InitNeg ==
    /\ FsmInit
    /\ \E m \in 1..MaxNegRounds : NegInit(m)
    /\ ConsInit
    /\ TrustInit
    /\ GraphInit
    /\ StInit
    /\ MsgInit
    /\ GenInit
    /\ TblInit

NextNeg ==
    \/ \E t \in NegThreads : StartNegotiation(t)
    \/ \E m \in NegMessages(neg_ops + 1) : ProcessResponseCall(m)

SpecNeg == InitNeg /\ [][NextNeg /\ UNCHANGED <<fsm_vars, cons_vars, trust_vars, graph_vars, st_vars, msg_vars, gen_vars, tbl_vars>>]_vars

NextCons ==
    \/ \E v \in Voters, a \in BOOLEAN, c \in Confidences, w \in VoteWeights :
          AddVote([voter |-> v, approved |-> a, confidence |-> c, weight |-> w])
    \/ \E v \in Voters, a \in BOOLEAN, c \in Confidences : AddVoteFromMessage(v, a, c)
    \/ ClearVotes

SpecCons == Init /\ [][NextCons /\ UNCHANGED <<fsm_vars, neg_vars, trust_vars, graph_vars, st_vars, msg_vars, gen_vars, tbl_vars>>]_vars

NextTrust == \E ty \in TrustEventTypes, a \in BOOLEAN : RecordEvent(ty, a)

SpecTrust == Init /\ [][NextTrust /\ UNCHANGED <<fsm_vars, neg_vars, cons_vars, graph_vars, st_vars, msg_vars, gen_vars, tbl_vars>>]_vars

NextGraph == \E m \in GraphMessages(Len(g_all) + 1) : RegisterMessage(m)

SpecGraph == Init /\ [][NextGraph /\ UNCHANGED <<fsm_vars, neg_vars, cons_vars, trust_vars, st_vars, msg_vars, gen_vars, tbl_vars>>]_vars

NextCircular == \E m \in TurnMessages(Len(g_all) + 1) : RegisterTurn(m)

SpecCircular == Init /\ [][NextCircular /\ UNCHANGED <<fsm_vars, neg_vars, cons_vars, trust_vars, st_vars, msg_vars, gen_vars, tbl_vars>>]_vars

NextState ==
    \/ \E m \in 0..MaxMaxRounds : Initialize(m)
    \/ NewRound
    \/ \E p \in Phases \cup {"review"} : SetPhase(p)
    \/ \E o \in FinalizeOutcomes : Finalize(o)
    \/ Reset

SpecState == Init /\ [][NextState /\ UNCHANGED <<fsm_vars, neg_vars, trust_vars, graph_vars, msg_vars, gen_vars, tbl_vars>>]_vars

\* messages are constructed by two senders; replies come from any role, to
\* any message constructed so far
NextMsg ==
    \/ \E snd \in {"doer", "critic"}, t \in {0} \cup {m_msgs[i].thread_id : i \in 1..Len(m_msgs)} :
          NewMessage(snd, IF snd = "doer" THEN "critic" ELSE "doer", t)
    \/ \E i \in 1..Len(m_msgs), snd \in Roles : CreateReplyCall(i, snd)

SpecMsg == Init /\ [][NextMsg /\ UNCHANGED <<fsm_vars, neg_vars, cons_vars, trust_vars, graph_vars, st_vars, gen_vars, tbl_vars>>]_vars

\* transitions are registered for (a, go), to a (a self-loop) or to b
NextGen ==
    \/ \E t \in {"a", "b"}, g \in GenGuards, p \in {0, 1} : GenAddTransition("a", t, "go", g, p)
    \/ \E e \in GenEvents, c \in GenContexts : GenTrigger(e, c)
    \/ \E s \in {"a", "z"} : GenForceState(s)

SpecGen == Init /\ [][NextGen /\ UNCHANGED <<fsm_vars, neg_vars, cons_vars, trust_vars, graph_vars, st_vars, msg_vars, tbl_vars>>]_vars

NextTable ==
    \/ \E m \in MaxRoundsChoices, a \in BOOLEAN : CallInitialize(m, a)
    \/ CallNewRound
    \/ \E c \in CustomMessages : CallSendMessage(c)
    \/ \E c \in Contents : CallSubmitPlan(c)
    \/ \E a \in BOOLEAN : CallSubmitCritique(a)
    \/ CallSubmitImplementation
    \/ \E a \in BOOLEAN : CallSubmitReview(a)
    \/ \E r \in Contents : CallEscalate(r)
    \/ \E s \in {"doer", "critic"} : CallSubmitDecision(s)
    \/ CallSubmitApproval
    \/ CallSubmitRejection
    \/ \E r \in BOOLEAN : CallSubmitObjection(r)
    \/ \E r \in BOOLEAN : CallSubmitCounterProposal(r)
    \/ \E r \in BOOLEAN : CallSubmitResponse(r)
    \/ CallRequestClarification
    \/ CallSubmitClarificationResponse
    \/ \E r \in BOOLEAN : CallSubmitAcknowledgment(r)
    \/ CallAdvancePhase
    \/ \E p \in Phases : CallSetPhase(p)
    \/ \E o \in FinalizeOutcomes : CallFinalize(o)
    \/ CallReset

\* one call on the long-lived table alone
Drive(op, arg, r) ==
    /\ tb_last.calls < MaxDriveCalls
    /\ tb' = r.w
    /\ pp' = pp
    /\ tb_last' = [op |-> op, raised |-> r.raised, arg |-> arg, calls |-> tb_last.calls + 1]

\* a call of the doer or the critic: in the resolve phase the next move is
\* the arbiter's
Turn(op, arg, r) == tb.state.current_phase # "resolve" /\ Drive(op, arg, r)

\* the strategy is chosen, and the session initialized, once
DriveSetStrategy(name) ==
    ~tb.exists /\ tb.strategy = "default" /\ name # "default"
    /\ Drive("set_strategy", <<name>>, DoSetStrategy(tb, name))

DriveInitialize(auto_escalate) ==
    ~tb.exists /\ Drive("initialize", <<auto_escalate>>, DoInitialize(tb, 0, auto_escalate))

DriveSubmitImplementation ==
    Turn("submit_implementation", <<>>, DoSubmitImplementation(tb, "x"))

\* the critic replies to the last message of the transcript
DriveSubmitCounterProposal ==
    Turn("submit_counter_proposal", <<>>,
          DoSubmitCounterProposal(tb, "critic", "x", GetLastMessage(tb, "", "")))

DriveSubmitCritique(approved) ==
    Turn("submit_critique", <<approved>>, DoSubmitCritique(tb, "x", approved))

DriveSubmitReview(approved) ==
    Turn("submit_review", <<approved>>, DoSubmitReview(tb, "x", approved))

NextStrategy ==
    \/ \E n \in StrategyNames : DriveSetStrategy(n)
    \/ \E a \in BOOLEAN : DriveInitialize(a)
    \/ DriveSubmitImplementation
    \/ DriveSubmitCounterProposal
    \/ \E a \in BOOLEAN : DriveSubmitCritique(a)
    \/ \E a \in BOOLEAN : DriveSubmitReview(a)

SpecStrategy == Init /\ [][NextStrategy /\ UNCHANGED <<fsm_vars, neg_vars, cons_vars, trust_vars, graph_vars, st_vars, msg_vars, gen_vars>>]_vars

SpecTable == Init /\ [][NextTable /\ UNCHANGED <<fsm_vars, neg_vars, cons_vars, trust_vars, graph_vars, st_vars, msg_vars, gen_vars>>]_vars

(***************************************************************************)
(* Claims                                                                  *)
(***************************************************************************)

\* C1: once the machine is in `finalized`, every trigger fails (FSMError
\* raised, try_trigger returns None, can_trigger is False for every event
\* and context), and the failed call leaves current_state and the history
\* as they were.
C1_FinalizedRejectsTriggers ==
    /\ (fsm_last.op \in {"trigger", "try_trigger"} /\ fsm_last.pre_state = "finalized") =>
          /\ ~fsm_last.ok
          /\ fsm_last.result = (IF fsm_last.op = "trigger" THEN "raised" ELSE "None")
          /\ fsm_current = "finalized"
          /\ fsm_history = fsm_last.pre_history
    /\ fsm_current = "finalized" =>
          \A e \in Events, c \in Contexts : ~CanTrigger(fsm_current, e, c)

\* C1 witness: `rejected`, which leaves `approve`, was triggered in `finalized`
C1_Witness ==
    /\ fsm_last.op = "trigger"
    /\ fsm_last.pre_state = "finalized"
    /\ fsm_last.event = "rejected"
    /\ \E i \in 1..Len(fsm_history) : fsm_history[i].event = "approved"

\* The number of transitions registered for (state, event) whose guard
\* accepts the context
AllowedCount(state, event, context) ==
    LET cands == Candidates(FsmTransitions, state, event)
    IN  Cardinality({i \in 1..Len(cands) : IsAllowed(cands[i], ContextOrEmpty(context))})

RejectedIn(state, event, escalated) ==
    (fsm_last.op \in {"trigger", "try_trigger"} /\ fsm_last.event = event
        /\ fsm_last.pre_state = state) =>
          /\ fsm_last.ok
          /\ fsm_current = (IF fsm_last.context.has_key /\ fsm_last.context.auto_escalate
                            THEN escalated ELSE state)
          /\ fsm_history = Append(fsm_last.pre_history, Record(state, fsm_current, event))

\* C2: plan_rejected in `plan` (review_rejected in `implement`) moves to
\* `resolve` when the context has auto_escalate = true and otherwise stays,
\* the self-loop being recorded in the history; exactly one of the two
\* guarded transitions accepts any context, so the event never fails there.
C2_RejectedEscalatesOrLoops ==
    /\ RejectedIn("plan", "plan_rejected", "resolve")
    /\ RejectedIn("implement", "review_rejected", "resolve")
    /\ \A c \in Contexts : /\ AllowedCount("plan", "plan_rejected", c) = 1
                           /\ AllowedCount("implement", "review_rejected", c) = 1

\* C2 witness: plan_rejected without auto_escalate looped on `plan` and was recorded
C2_Witness ==
    /\ fsm_last.op = "trigger"
    /\ fsm_last.event = "plan_rejected"
    /\ fsm_last.pre_state = "plan"
    /\ fsm_last.context = CtxNone
    /\ fsm_current = "plan"
    /\ Len(fsm_history) = Len(fsm_last.pre_history) + 1

\* The manager was built with max_negotiation_rounds = 2 and has seen
\* exactly: start_negotiation(proposal), a counter_proposal on the thread,
\* a second counter_proposal on the thread.  (Only a counter_proposal
\* fills a round's counter and opens the next round.)
StartThenTwoCounters ==
    /\ neg_max = 2
    /\ neg_ops = 3
    /\ "t1" \in DOMAIN neg_tbl
    /\ LET r == neg_tbl["t1"].rounds
       IN  /\ Len(r) = 3
           /\ r[1].proposal = 1 /\ r[1].counter = 2
           /\ r[2].proposal = 2 /\ r[2].counter = 3
           /\ r[3].proposal = 3

\* C3: with max_negotiation_rounds = 2, after start_negotiation and two
\* consecutive counter_proposals the negotiation is deadlocked and the
\* deadlock callback has been invoked exactly once.
C3_DeadlockCallbackOnce ==
    StartThenTwoCounters =>
        /\ neg_tbl["t1"].status = "deadlocked"
        /\ neg_deadlock_calls = 1

\* C4: with fewer held votes than min_voters, evaluate() returns
\* has_quorum = false and approved = false in every quorum mode, whatever
\* the votes say.
C4_NoQuorumNoApproval ==
    \A mode \in QuorumModes, m \in 0..MaxMinVoters :
        Len(cons_votes) < m =>
            /\ ~Evaluate(cons_votes, mode, m).has_quorum
            /\ ~Evaluate(cons_votes, mode, m).approved

\* C4 witness: two approving votes, the Arbiter's certain, below min_voters = 3
C4_Witness ==
    /\ Len(cons_votes) = 2
    /\ \A i \in 1..Len(cons_votes) : cons_votes[i].approved
    /\ \E i \in 1..Len(cons_votes) :
          cons_votes[i].voter = "arbiter" /\ cons_votes[i].confidence = "certain"
    /\ Evaluate(cons_votes, "simple_majority", 2).approved

Disapproving == {cons_votes[i].voter : i \in {j \in 1..Len(cons_votes) : ~cons_votes[j].approved}}

\* C5: in mode unanimous with quorum met, approved iff every held vote
\* approves, and the dissent list holds exactly the disapproving voters,
\* each once.
C5_UnanimousIffAllApprove ==
    \A m \in 0..MaxMinVoters :
        Len(cons_votes) >= m =>
            LET e == Evaluate(cons_votes, "unanimous", m)
            IN  /\ e.has_quorum
                /\ e.approved <=> (\A i \in 1..Len(cons_votes) : cons_votes[i].approved)
                /\ {e.dissent[i] : i \in 1..Len(e.dissent)} = Disapproving
                /\ Len(e.dissent) = Cardinality(Disapproving)

\* C5 witness: three votes, a majority approving, one dissenter
C5_Witness ==
    /\ Len(cons_votes) = 3
    /\ Cardinality(Disapproving) = 1
    /\ ~Evaluate(cons_votes, "unanimous", 2).approved
    /\ Evaluate(cons_votes, "unanimous", 2).dissent = <<"critic">>

\* The multipliers the claim names, in units of 0.5
C6_Multiplier(confidence) ==
    CASE confidence = "low" -> 1
      [] confidence = "medium" -> 2
      [] confidence = "high" -> 3
      [] confidence = "certain" -> 4

\* The sum over the voters of (+1 if approved else -1) x weight x multiplier
RECURSIVE C6_SumOver(_)
C6_SumOver(voters) ==
    IF voters = {} THEN 0
    ELSE LET v == CHOOSE x \in voters : TRUE
             i == CHOOSE j \in 1..Len(cons_votes) : cons_votes[j].voter = v
         IN  (IF cons_votes[i].approved THEN cons_votes[i].weight
              ELSE 0 - cons_votes[i].weight) * C6_Multiplier(cons_votes[i].confidence)
             + C6_SumOver(voters \ {v})

C6_KnownConfidences ==
    \A i \in 1..Len(cons_votes) : cons_votes[i].confidence \in {"low", "medium", "high", "certain"}

\* C6: in mode weighted with quorum met, approved iff the sum of
\* (+1 if approved else -1) x weight x multiplier (0.5/1.0/1.5/2.0 for
\* low/medium/high/certain) over the held votes is strictly positive; a sum
\* of zero is not approved.
C6_WeightedIffPositiveSum ==
    \A m \in 0..MaxMinVoters :
        (Len(cons_votes) >= m /\ C6_KnownConfidences) =>
            (Evaluate(cons_votes, "weighted", m).approved
                <=> C6_SumOver({cons_votes[i].voter : i \in 1..Len(cons_votes)}) > 0)

\* C6 witness: the scores of opposing votes cancel to exactly zero, so the
\* proposal is not approved
C6_Witness ==
    /\ Len(cons_votes) >= 2
    /\ C6_KnownConfidences
    /\ \E i, j \in 1..Len(cons_votes) :
          cons_votes[i].weight # cons_votes[j].weight /\ cons_votes[i].approved
    /\ C6_SumOver({cons_votes[i].voter : i \in 1..Len(cons_votes)}) = 0
    /\ ~Evaluate(cons_votes, "weighted", 2).approved

\* new_round was called on an active session at its round limit
NewRoundAtLimit ==
    /\ st_last.op = "new_round"
    /\ st_last.pre_exists
    /\ st_last.pre.active
    /\ st_last.pre.current_round = st_last.pre.max_rounds

\* C7: new_round on an active session whose current_round equals max_rounds
\* raises, and the persisted session is then inactive with outcome
\* max_rounds_reached and the same current_round.
C7_NewRoundAtLimitFinalizes ==
    NewRoundAtLimit =>
        /\ st_last.raised
        /\ st_exists
        /\ ~st.active
        /\ st.outcome = "max_rounds_reached"
        /\ st.current_round = st_last.pre.current_round

\* C7 witness: the limit was hit after rounds had been started
C7_Witness == NewRoundAtLimit /\ st_last.pre.current_round >= 2

\* C8: after any sequence of record_event calls the trust score lies in [0.1, 2.0].
C8_TrustScoreInRange ==
    /\ RatLeq(Rat(1, 10), trust.trust_score)
    /\ RatLeq(trust.trust_score, Rat(2, 1))

\* C8 witness: every penalty applies (no accurate vote in three, an overridden
\* decision, escalations above half the decisions) and the score is 0.25
C8_Witness ==
    /\ trust.total_votes >= 3
    /\ trust.overridden_decisions >= 1
    /\ trust.escalations_caused >= 1
    /\ trust.trust_score.num * 4 = trust.trust_score.den

\* a misaligned vote was recorded for a participant whose votes so far were all aligned
MisalignedAfterPerfect ==
    /\ trust_event = [type |-> "vote", aligned |-> FALSE]
    /\ trust_pre.accurate_votes = trust_pre.total_votes

\* C9 as stated: for a participant whose votes so far were all aligned (or
\* who has no votes yet), a further misaligned vote strictly lowers the score.
C9_MisalignedVoteLowers ==
    MisalignedAfterPerfect => RatLess(trust.trust_score, trust_pre.trust_score)

\* C9 amended: the same, for a participant with at least three votes so far.
C9_MisalignedVoteLowersFromThree ==
    (MisalignedAfterPerfect /\ trust_pre.total_votes >= 3) =>
        RatLess(trust.trust_score, trust_pre.trust_score)

\* C9 witness: a misaligned vote after three aligned ones
C9_Witness ==
    /\ MisalignedAfterPerfect
    /\ trust_pre.total_votes = 3
    /\ RatLess(trust.trust_score, trust_pre.trust_score)

\* The most recently registered message of thread t, from the graph's list
\* of all messages
LastRegistered(t) ==
    LET idx == {i \in 1..Len(g_all) : g_all[i].thread_id = t}
    IN  g_all[CHOOSE i \in idx : \A j \in idx : j <= i]

Resolving(m) ==
    \/ m.msg_type \in {"approval", "acknowledgment"}
    \/ m.msg_type \in {"critique", "review"} /\ m.approved = "true"

\* C10: a thread is resolved, and absent from get_active_threads(), iff its
\* most recently registered message is an approval or acknowledgment, or a
\* critique or review with approved = true; so a resolved thread is
\* unresolved again after a later non-resolving message.
C10_ResolvedIffLastResolves ==
    /\ DOMAIN g_threads = {g_all[i].thread_id : i \in 1..Len(g_all)}
    /\ \A t \in DOMAIN g_threads :
          /\ IsResolved(g_threads[t]) <=> Resolving(LastRegistered(t))
          /\ t \in ActiveThreads <=> ~Resolving(LastRegistered(t))

\* C10 witness: a thread resolved by an approving critique is active again
\* after a rejection was registered on it
C10_Witness ==
    /\ "t1" \in DOMAIN g_threads
    /\ Len(g_threads["t1"]) = 2
    /\ Resolving(g_threads["t1"][1])
    /\ g_threads["t1"][1].msg_type = "critique"
    /\ g_threads["t1"][2].msg_type = "rejection"
    /\ "t1" \in ActiveThreads

\* The message a reply chain started from: follow the create_reply calls back
RECURSIVE ChainStart(_)
ChainStart(i) == IF m_parent[i] = 0 THEN i ELSE ChainStart(m_parent[i])

\* How many create_reply calls lie between message i and the start of its chain
RECURSIVE ReplyDepth(_)
ReplyDepth(i) == IF m_parent[i] = 0 THEN 0 ELSE 1 + ReplyDepth(m_parent[i])

\* The start of the chain is a root message: constructed without a thread_id
StartsFromRoot(i) == IsThreadRoot(m_msgs[ChainStart(i)])

\* C11: every message made by create_reply, at any depth of a chain that
\* starts from a root message R, has thread_id = R.message_id, reply_to =
\* the id of the message replied to and recipient = that message's sender;
\* in the chain only R has thread_id = message_id.
C11_RepliesKeepThread ==
    \A i \in 1..Len(m_msgs) :
        (m_parent[i] # 0 /\ StartsFromRoot(i)) =>
            /\ m_msgs[i].thread_id = m_msgs[ChainStart(i)].message_id
            /\ m_msgs[i].reply_to = m_msgs[m_parent[i]].message_id
            /\ m_msgs[i].recipient = m_msgs[m_parent[i]].sender
            /\ {j \in 1..Len(m_msgs) : ChainStart(j) = ChainStart(i) /\ IsThreadRoot(m_msgs[j])}
                  = {ChainStart(i)}

\* C11 witness: a reply to a reply to a reply of a root message
C11_Witness ==
    \E i \in 1..Len(m_msgs) :
        /\ ReplyDepth(i) = 3
        /\ StartsFromRoot(i)
        /\ m_msgs[i].thread_id = m_msgs[ChainStart(i)].message_id
        /\ m_msgs[i].reply_to # m_msgs[ChainStart(i)].message_id


\* ---- the user-configured machine ----
\* the transitions registered for the state and event of the last call
GenRegistered == { i \in 1..Len(gf_transitions) :
                     /\ gf_transitions[i].source = gf_last.pre_state
                     /\ gf_transitions[i].event = gf_last.event }

\* a guard accepts the context of the last call: no guard accepts, the
\* guard reading the context accepts when the key is present and set, a
\* raising guard rejects
GenAccepts(i) ==
    \/ gf_transitions[i].guard = "none"
    \/ /\ gf_transitions[i].guard = "auto_escalate"
       /\ ~gf_last.context.is_none
       /\ gf_last.context.has_key
       /\ gf_last.context.auto_escalate

GenAccepting == { i \in GenRegistered : GenAccepts(i) }

\* C18: a trigger that fails (terminal state, no transition registered for
\* the state and event, or every guard rejecting) leaves current_state and
\* history unchanged and runs no callback or action; the error of a terminal
\* state differs from the error of a missing transition.
C18_FailedTriggerChangesNothing ==
    (gf_last.op = "trigger") =>
        /\ ~gf_last.ok <=> \/ gf_last.pre_state \in GenTerminal
                           \/ GenRegistered = {}
                           \/ GenAccepting = {}
        /\ ~gf_last.ok =>
              /\ gf_current = gf_last.pre_state
              /\ gf_history = gf_last.pre_history
              /\ gf_log = gf_last.pre_log
              /\ (gf_last.err = "terminal") <=> (gf_last.pre_state \in GenTerminal)
              /\ (gf_last.err = "no_transition") <=>
                    (gf_last.pre_state \notin GenTerminal /\ GenRegistered = {})
              /\ (gf_last.err = "guards_blocked") <=>
                    (gf_last.pre_state \notin GenTerminal /\ GenRegistered # {})

\* every guard rejected after a transition had already run its callbacks
C18_Witness ==
    /\ gf_last.op = "trigger"
    /\ gf_last.err = "guards_blocked"
    /\ gf_log # <<>>
    /\ Len(gf_history) = 1

\* C19: a successful trigger runs the exit callback of the old state, the
\* action of the chosen transition and the entry callback of the new state
\* in that order and appends one record (old state, target, event), also for
\* a self-loop; the history is as long as the number of successful triggers
\* plus force_state calls and its last record ends in current_state.
C19_CallbackOrderAndHistory ==
    /\ (gf_last.op = "trigger" /\ gf_last.ok) =>
          LET old == gf_last.pre_state
              new == gf_transitions[gf_last.id].target
              ran == SubSeq(gf_log, Len(gf_last.pre_log) + 1, Len(gf_log))
              exits == SelectSeq(ran, LAMBDA x : x[1] = "exit")
              acts == SelectSeq(ran, LAMBDA x : x[1] = "action")
              enters == SelectSeq(ran, LAMBDA x : x[1] = "enter")
          IN  /\ gf_current = new
              /\ gf_history = Append(gf_last.pre_history,
                                     [from_state |-> old, to_state |-> new, event |-> gf_last.event])
              /\ SubSeq(gf_log, 1, Len(gf_last.pre_log)) = gf_last.pre_log
              /\ ran = exits \o acts \o enters
              /\ exits = IF old \in GenWithCallbacks THEN << <<"exit", old>> >> ELSE <<>>
              /\ acts = << <<"action", gf_last.id>> >>
              /\ enters = IF new \in GenWithCallbacks THEN << <<"enter", new>> >> ELSE <<>>
    /\ Len(gf_history) = gf_count
    /\ gf_history # <<>> => gf_history[Len(gf_history)].to_state = gf_current

\* a self-loop on a state with both callbacks, after an earlier call
C19_Witness ==
    /\ gf_last.op = "trigger"
    /\ gf_last.ok
    /\ gf_last.pre_state = "a"
    /\ gf_current = "a"
    /\ Len(gf_history) = 2
    /\ gf_history[1].event = "_force"

\* C20: among the transitions registered for the state and event, trigger
\* executes one whose guard accepts, of the highest priority among the
\* accepting ones and, among equals, the one registered first; it fails
\* only when none accepts.
C20_HighestPriorityAcceptingWins ==
    (gf_last.op = "trigger" /\ gf_last.pre_state \notin GenTerminal) =>
        /\ gf_last.ok <=> GenAccepting # {}
        /\ gf_last.ok =>
              /\ gf_last.id \in GenAccepting
              /\ \A j \in GenAccepting \ {gf_last.id} :
                    \/ gf_transitions[j].priority < gf_transitions[gf_last.id].priority
                    \/ /\ gf_transitions[j].priority = gf_transitions[gf_last.id].priority
                       /\ j > gf_last.id

\* the transition registered second ran although the first also accepts
C20_Witness ==
    /\ gf_last.op = "trigger"
    /\ gf_last.ok
    /\ gf_last.id = 2
    /\ 1 \in GenAccepting
    /\ gf_transitions[1].priority < gf_transitions[2].priority


\* ---- the table ----
\* the calls that need an active session
SessionCalls ==
    {"new_round", "send_message", "submit_plan", "submit_critique", "submit_implementation",
     "submit_review", "escalate", "submit_decision", "submit_approval", "submit_rejection",
     "submit_objection", "submit_counter_proposal", "advance_phase", "set_phase"}

\* C12: with no state file, or with a persisted state that is not active,
\* each of the fourteen session calls raises and leaves the state file and
\* the transcript as they were.
C12_InactiveCallsRaise ==
    [][ (~(tb.exists /\ tb.state.active) /\ tb_last'.op \in SessionCalls) =>
            /\ tb_last'.raised
            /\ tb'.exists = tb.exists
            /\ tb'.state = tb.state
            /\ tb'.transcript = tb.transcript ]_vars

\* a call made after the round limit had ended the session
C12_Witness ==
    /\ tb_last.op = "submit_critique"
    /\ tb_last.raised
    /\ tb.exists
    /\ ~tb.state.active
    /\ tb.state.outcome = "max_rounds_reached"


\* every field of the message handed to send_message is non-empty
WellFormed(c) == c[1] # "" /\ c[2] # "" /\ c[3] # "" /\ c[4] # ""

C14_FreshTablesEquivalent ==
    /\ pp.exists = tb.exists
    /\ pp.state = tb.state
    /\ pp.transcript = tb.transcript
    /\ TblStatus(Fresh(pp)) = TblStatus(tb)

\* the same counters and the same score
SameTrust(r, q) ==
    /\ [r EXCEPT !.trust_score = 0] = [q EXCEPT !.trust_score = 0]
    /\ r.trust_score.num * q.trust_score.den = q.trust_score.num * r.trust_score.den

\* C15: after reset(), initialize() and the construction of a new
\* AgentTable, every participant's trust counters and trust score are what
\* a table constructed before the reset showed.
C15_TrustSurvivesReset ==
    [][ tb_last'.op = "reset" =>
          \A a \in Roles :
            SameTrust(TrustOnDisk(Fresh(DoInitialize(tb', 1, TRUE).w), a),
                      TrustOnDisk(tb, a)) ]_vars

IsPrefix(s, t) == Len(s) <= Len(t) /\ SubSeq(t, 1, Len(s)) = s

\* what get_messages / get_last_message return for the filters, against
\* the transcript: ids in the order of appending, exactly the matching
\* entries, and the last of them
QueryInOrder(w, sender, msg_type) ==
    LET got == GetMessages(w, sender, msg_type)
        matches(d) == (sender # "" => d.sender = sender) /\ (msg_type # "" => d.msg_type = msg_type)
        want == {i \in 1..Len(w.transcript) : matches(w.transcript[i])}
        last == GetLastMessage(w, sender, msg_type)
    IN  /\ \A i \in 1..Len(got) : \A j \in 1..Len(got) :
              i < j => got[i].message_id < got[j].message_id
        /\ {got[i].message_id : i \in 1..Len(got)} = {w.transcript[i].message_id : i \in want}
        /\ Len(got) = Cardinality(want)
        /\ \A i \in 1..Len(got) : matches(got[i])
        /\ IF want = {} THEN last = <<>>
           ELSE /\ Len(last) = 1
                /\ \A i \in want : w.transcript[i].message_id <= last[1].message_id
                /\ \E i \in want : /\ w.transcript[i].message_id = last[1].message_id
                                    /\ w.transcript[i].msg_type = last[1].msg_type
                                    /\ w.transcript[i].sender = last[1].sender
                                    /\ w.transcript[i].thread_id = last[1].thread_id

\* C16: every call but reset leaves the transcript it found as a prefix of
\* the transcript it leaves; the entries are in the order they were
\* appended, get_messages returns the matching ones in that order and
\* get_last_message the last of them.
C16_TranscriptAppendOnly ==
    /\ [][ tb_last'.op # "reset" =>
             /\ IsPrefix(tb.transcript, tb'.transcript)
             /\ IsPrefix(pp.transcript, pp'.transcript) ]_vars
    /\ [](\A i \in 1..Len(tb.transcript) : \A j \in 1..Len(tb.transcript) :
             i < j => tb.transcript[i].message_id < tb.transcript[j].message_id)
    /\ [](\A s \in {"", "doer", "critic"}, t \in {"", "plan", "escalation"} :
             QueryInOrder(tb, s, t))

\* two messages of the doer, the later one returned as its last message
C16_Witness ==
    /\ Len(GetMessages(tb, "doer", "")) = 2
    /\ Len(tb.transcript) = 3
    /\ GetLastMessage(tb, "doer", "")[1].msg_type = "escalation"
    /\ GetMessages(tb, "doer", "")[1].msg_type = "plan"

\* C17: within a session the persisted current_round stays between 0 and
\* max_rounds; only a new_round that returns changes it, by exactly one,
\* and that call sets the phase to plan.  (initialize starts a session at
\* round 0 and reset removes the state file.)
C17_RoundBounded ==
    /\ [](tb.exists => (0 <= tb.state.current_round
                        /\ tb.state.current_round <= tb.state.max_rounds))
    /\ [][ tb_last'.op \notin {"initialize", "reset"} =>
             /\ tb'.state.max_rounds = tb.state.max_rounds
             /\ (tb'.state.current_round # tb.state.current_round
                    => tb_last'.op = "new_round" /\ ~tb_last'.raised)
             /\ (tb_last'.op = "new_round" /\ ~tb_last'.raised
                    => /\ tb'.state.current_round = tb.state.current_round + 1
                       /\ tb'.state.current_phase = "plan") ]_vars

\* the round limit reached by a new_round made after a message was sent
C17_Witness ==
    /\ tb_last.op = "new_round"
    /\ ~tb_last.raised
    /\ tb.state.current_round = 1
    /\ tb.state.max_rounds = 1
    /\ tb.state.total_messages = 1
    /\ tb.state.current_phase = "plan"

\* C21: force_state(s) makes s the current state whatever the state was
\* (the terminal state finalized too, and whether or not a transition leads
\* to s) and appends exactly one record (previous state, s, "_force").
C21_ForceStateBypasses ==
    fsm_last.op = "force_state" =>
        /\ fsm_last.event \in ForceTargets
        /\ fsm_current = fsm_last.event
        /\ fsm_history = Append(fsm_last.pre_history,
                                Record(fsm_last.pre_state, fsm_last.event, "_force"))

\* the machine forced out of the terminal state into a state that no
\* transition leaves finalized for
C21_Witness ==
    /\ fsm_last.op = "force_state"
    /\ fsm_last.pre_state = "finalized"
    /\ fsm_current = "approve"
    /\ \A e \in Events : Candidates(FsmTransitions, "finalized", e) = <<>>

\* the votes the engine holds for a voter
Held(votes, voter) == { votes[i] : i \in { j \in DOMAIN votes : votes[j].voter = voter } }

\* the voters the engine holds a vote for, and those whose held vote approves
Voting == { v \in Voters : Held(cons_votes, v) # {} }

ApprovingVoters == { v \in Voters : \E x \in Held(cons_votes, v) : x.approved }

\* C22: the engine holds at most one vote per voter; add_vote makes the
\* vote cast the one held for its voter and leaves the other voters' votes
\* as they were, clear_votes leaves none, so the vote held is the last one
\* cast since the last clear_votes; evaluate() counts one vote per voting
\* voter (its quorum and its majority are those of the held votes).
C22_OneVotePerVoter ==
    /\ [](\A i, j \in DOMAIN cons_votes : cons_votes[i].voter = cons_votes[j].voter => i = j)
    /\ [][ /\ cons_last'.op = "add_vote" =>
                /\ Held(cons_votes', cons_last'.vote.voter) = {cons_last'.vote}
                /\ \A v \in Voters \ {cons_last'.vote.voter} :
                      Held(cons_votes', v) = Held(cons_votes, v)
           /\ cons_last'.op = "clear_votes" => cons_votes' = <<>> ]_vars
    /\ [](\A m \in 1..MaxMinVoters :
            /\ Evaluate(cons_votes, "simple_majority", m).has_quorum
                  <=> Cardinality(Voting) >= m
            /\ Evaluate(cons_votes, "simple_majority", m).approved
                  <=> (Cardinality(Voting) >= m
                       /\ 2 * Cardinality(ApprovingVoters) > Cardinality(Voting))
            /\ Evaluate(cons_votes, "unanimous", m).approved
                  <=> (Cardinality(Voting) >= m /\ ApprovingVoters = Voting))

\* the critic approved and then disapproved: only the disapproval is held,
\* beside the doer's vote
C22_Witness ==
    /\ cons_last.op = "add_vote"
    /\ cons_last.vote.voter = "critic"
    /\ ~cons_last.vote.approved
    /\ Len(cons_votes) = 2
    /\ cons_votes[1].voter = "doer"
    /\ cons_votes[1].approved
    /\ ~Evaluate(cons_votes, "simple_majority", 2).approved

\* the negotiation status process_response gives for a message type that
\* resolves, asks for a clarification or answers one
StatusFor(m) ==
    CASE m.msg_type \in {"approval", "acknowledgment"} -> "resolved_accepted"
      [] m.msg_type = "rejection" -> "resolved_rejected"
      [] m.msg_type \in {"critique", "review"} /\ m.approved = "true" -> "resolved_accepted"
      [] m.msg_type = "clarification" -> "clarification_needed"
      [] m.msg_type = "clarification_response" -> "awaiting_response"
      [] OTHER -> "unspecified"

\* C23: on a thread with a negotiation, process_response sets the status
\* to resolved_accepted for approval, acknowledgment and an approving
\* critique or review, to resolved_rejected for rejection, to
\* clarification_needed for clarification and to awaiting_response for
\* clarification_response, and the round count stays; on a thread without
\* a negotiation nothing changes and no callback fires.
C23_StatusByType ==
    [][ \A m \in NegMessages(neg_ops + 1) : ProcessResponseCall(m) =>
          IF m.thread_id \in DOMAIN neg_tbl
          THEN StatusFor(m) # "unspecified" =>
                  /\ neg_tbl'[m.thread_id].status = StatusFor(m)
                  /\ RoundCount(neg_tbl'[m.thread_id]) = RoundCount(neg_tbl[m.thread_id])
          ELSE /\ neg_tbl' = neg_tbl
               /\ neg_deadlock_calls' = neg_deadlock_calls
               /\ neg_escalate_calls' = neg_escalate_calls
               /\ neg_resolve_calls' = neg_resolve_calls ]_vars

\* a rejection received in the second round, after a clarification was
\* asked for and answered in it
C23_Witness ==
    /\ "t1" \in DOMAIN neg_tbl
    /\ neg_tbl["t1"].status = "resolved_rejected"
    /\ RoundCount(neg_tbl["t1"]) = 2
    /\ Len(CurrentRound(neg_tbl["t1"]).clarifications) = 2

\* a critique or review on a negotiated thread whose approved flag is the
\* given one
Verdict(m, flags) ==
    /\ m.thread_id \in DOMAIN neg_tbl
    /\ m.msg_type \in {"critique", "review"}
    /\ m.approved \in flags

\* C24 as claimed: a disapproving critique or review makes the
\* negotiation's status counter_proposed while its round count is below
\* max_rounds, and deadlocked, with the deadlock callback fired, once the
\* round count has reached max_rounds.
C24_DisapprovalCounterProposed ==
    [][ \A m \in NegMessages(neg_ops + 1) :
          (ProcessResponseCall(m) /\ Verdict(m, {"false"})) =>
             LET old == neg_tbl[m.thread_id]
                 new == neg_tbl'[m.thread_id]
             IN  IF Len(old.rounds) < old.max_rounds
                 THEN new.status = "counter_proposed"
                 ELSE /\ new.status = "deadlocked"
                      /\ neg_deadlock_calls' = neg_deadlock_calls + 1 ]_vars

\* C24 amended: a critique or review that does not approve (approved false
\* or missing) is stored as the current round's response and gives that
\* round the status counter_proposed; the negotiation's status becomes
\* awaiting_response, with no callback, while the round count is below
\* max_rounds, and deadlocked, with the deadlock callback fired once, when
\* the round count has reached max_rounds.  The round count stays.
C24_DisapprovalAwaitsCounter ==
    [][ \A m \in NegMessages(neg_ops + 1) :
          (ProcessResponseCall(m) /\ Verdict(m, {"false", "absent"})) =>
             LET old == neg_tbl[m.thread_id]
                 new == neg_tbl'[m.thread_id]
                 cur == new.rounds[Len(new.rounds)]
             IN  /\ Len(new.rounds) = Len(old.rounds)
                 /\ cur.status = "counter_proposed"
                 /\ cur.response = m.message_id
                 /\ IF Len(old.rounds) < old.max_rounds
                    THEN /\ new.status = "awaiting_response"
                         /\ neg_deadlock_calls' = neg_deadlock_calls
                    ELSE /\ new.status = "deadlocked"
                         /\ neg_deadlock_calls' = neg_deadlock_calls + 1
                 /\ neg_escalate_calls' = neg_escalate_calls
                 /\ neg_resolve_calls' = neg_resolve_calls ]_vars

\* a disapproval received below the limit: the round is counter_proposed,
\* the negotiation awaits a response and no callback has fired
C24_Witness ==
    /\ "t1" \in DOMAIN neg_tbl
    /\ neg_tbl["t1"].max_rounds = 3
    /\ Len(neg_tbl["t1"].rounds) = 2
    /\ neg_tbl["t1"].rounds[2].status = "counter_proposed"
    /\ neg_tbl["t1"].rounds[2].response = neg_ops
    /\ neg_tbl["t1"].rounds[2].counter = 0
    /\ neg_tbl["t1"].status = "awaiting_response"
    /\ neg_deadlock_calls = 0

\* C25: a counter_proposal processed on a negotiation appends exactly one
\* round, whose proposal is the counter-proposal; the rounds before it are
\* kept, the previous round taking the message as its counter; afterwards
\* the status is deadlocked iff the new round count is >= max_rounds, and
\* awaiting_response otherwise.
C25_CounterProposalOpensRound ==
    [][ \A m \in NegMessages(neg_ops + 1) :
          (ProcessResponseCall(m) /\ m.thread_id \in DOMAIN neg_tbl
                                  /\ m.msg_type = "counter_proposal") =>
             LET old == neg_tbl[m.thread_id]
                 new == neg_tbl'[m.thread_id]
                 n == Len(old.rounds)
             IN  /\ Len(new.rounds) = n + 1
                 /\ new.rounds[n + 1].proposal = m.message_id
                 /\ new.rounds[n + 1].response = 0
                 /\ new.rounds[n + 1].counter = 0
                 /\ new.rounds[n].counter = m.message_id
                 /\ new.rounds[n].proposal = old.rounds[n].proposal
                 /\ new.rounds[n].response = old.rounds[n].response
                 /\ \A i \in 1..(n - 1) : new.rounds[i] = old.rounds[i]
                 /\ new.max_rounds = old.max_rounds
                 /\ new.status = IF n + 1 >= new.max_rounds THEN "deadlocked"
                                  ELSE "awaiting_response" ]_vars

\* a first counter-proposal below the limit of three rounds
C25_Witness ==
    /\ "t1" \in DOMAIN neg_tbl
    /\ neg_tbl["t1"].max_rounds = 3
    /\ Len(neg_tbl["t1"].rounds) = 2
    /\ neg_tbl["t1"].rounds[1].counter = neg_ops
    /\ neg_tbl["t1"].rounds[2].proposal = neg_ops
    /\ neg_tbl["t1"].status = "awaiting_response"
    /\ neg_deadlock_calls = 0

\* C26: an objection on a thread with a negotiation sets the status to
\* escalated and invokes the escalation callback once; a message of any
\* other type, and a message on a thread without a negotiation, does not
\* invoke it.
C26_ObjectionEscalatesOnce ==
    [][ \A m \in NegMessages(neg_ops + 1) : ProcessResponseCall(m) =>
          IF m.thread_id \in DOMAIN neg_tbl /\ m.msg_type = "objection"
          THEN /\ neg_tbl'[m.thread_id].status = "escalated"
               /\ neg_escalate_calls' = neg_escalate_calls + 1
          ELSE neg_escalate_calls' = neg_escalate_calls ]_vars

\* a second objection on a negotiation that was escalated and then
\* rejected: each objection has fired the callback once
C26_Witness ==
    /\ "t1" \in DOMAIN neg_tbl
    /\ neg_tbl["t1"].status = "escalated"
    /\ neg_escalate_calls = 2
    /\ neg_ops = 4
    /\ neg_tbl["t1"].resolution = "rejected"

\* the message types process_response has a branch of their own for,
\* the generic response apart
BranchTypes ==
    {"approval", "acknowledgment", "rejection", "critique", "review", "counter_proposal",
     "clarification", "clarification_response", "objection"}

\* a message of none of these types, on a negotiated thread
Unlisted(m) == m.thread_id \in DOMAIN neg_tbl /\ m.msg_type \notin BranchTypes

\* what no unlisted message changes: the negotiation's status and round
\* count, the earlier rounds, the current round's proposal and counter,
\* and the callback counts
UnlistedFrame(old, new) ==
    /\ new.status = old.status
    /\ Len(new.rounds) = Len(old.rounds)
    /\ \A i \in 1..(Len(old.rounds) - 1) : new.rounds[i] = old.rounds[i]
    /\ new.rounds[Len(new.rounds)].proposal = old.rounds[Len(old.rounds)].proposal
    /\ new.rounds[Len(new.rounds)].counter = old.rounds[Len(old.rounds)].counter
    /\ neg_deadlock_calls' = neg_deadlock_calls
    /\ neg_escalate_calls' = neg_escalate_calls
    /\ neg_resolve_calls' = neg_resolve_calls

\* C27 as claimed: a message of a type outside the nine (response, vote,
\* amendment, decision, escalation, plan, ...) leaves the negotiation's
\* status and round count and the current round's status, response and
\* counter unchanged and fires no callback.
C27_UnlistedTypesChangeNothing ==
    [][ \A m \in NegMessages(neg_ops + 1) : (ProcessResponseCall(m) /\ Unlisted(m)) =>
          LET old == neg_tbl[m.thread_id]
              new == neg_tbl'[m.thread_id]
          IN  /\ UnlistedFrame(old, new)
              /\ new.rounds[Len(new.rounds)].status = old.rounds[Len(old.rounds)].status
              /\ new.rounds[Len(new.rounds)].response = old.rounds[Len(old.rounds)].response ]_vars

\* C27 amended: a message of a type outside the nine and other than
\* response is appended to the current round's clarifications and changes
\* nothing else; a response becomes the current round's response and sets
\* that round's status to awaiting_response; in both cases the
\* negotiation's status and round count, the round's counter and the
\* earlier rounds stay and no callback fires.
C27_UnlistedTypesRecorded ==
    [][ \A m \in NegMessages(neg_ops + 1) : (ProcessResponseCall(m) /\ Unlisted(m)) =>
          LET old == neg_tbl[m.thread_id]
              new == neg_tbl'[m.thread_id]
              was == old.rounds[Len(old.rounds)]
              cur == new.rounds[Len(new.rounds)]
          IN  /\ UnlistedFrame(old, new)
              /\ IF m.msg_type = "response"
                 THEN /\ cur.response = m.message_id
                      /\ cur.status = "awaiting_response"
                      /\ cur.clarifications = was.clarifications
                 ELSE /\ cur.response = was.response
                      /\ cur.status = was.status
                      /\ cur.clarifications = Append(was.clarifications, m.message_id) ]_vars

\* a vote recorded in the second round, after a response had answered a
\* clarification request in that round: the negotiation is still
\* clarification_needed, its round awaits a response
C27_Witness ==
    /\ "t1" \in DOMAIN neg_tbl
    /\ Len(neg_tbl["t1"].rounds) = 2
    /\ neg_tbl["t1"].status = "clarification_needed"
    /\ CurrentRound(neg_tbl["t1"]).status = "awaiting_response"
    /\ CurrentRound(neg_tbl["t1"]).response = neg_ops - 1
    /\ Len(CurrentRound(neg_tbl["t1"]).clarifications) = 2
    /\ CurrentRound(neg_tbl["t1"]).clarifications[2] = neg_ops

\* C28: a negotiation is stale exactly when its round count has reached
\* max_rounds and it is not resolved (neither resolved_accepted nor
\* resolved_rejected).
C28_StaleIffLimitUnresolved ==
    \A t \in DOMAIN neg_tbl :
        IsStale(neg_tbl[t]) <=>
            /\ Len(neg_tbl[t].rounds) >= neg_tbl[t].max_rounds
            /\ neg_tbl[t].status \notin {"resolved_accepted", "resolved_rejected"}

\* the positions of the window of detect_circular_arguments(n) in a thread
\* of the given depth: the last n for n >= 1, all for n = 0, all but the
\* first -n for n < 0
WindowOf(depth, n) == IF n >= 1 THEN (depth - n + 1)..depth ELSE (1 - n)..depth

\* the number of the senders in the window
WindowSenders(t, n) ==
    Cardinality({g_threads[t][i].sender : i \in WindowOf(Len(g_threads[t]), n)})

\* the adjacent positions of the window at which the sender changes
WindowChanges(t, n) ==
    Cardinality({i \in WindowOf(Len(g_threads[t]), n) :
                    i < Len(g_threads[t]) /\ g_threads[t][i].sender # g_threads[t][i + 1].sender})

SummaryStep(old, new, round) ==
    /\ tb_last'.op \notin {"initialize", "reset"} => IsPrefix(old, new)
    /\ (tb_last'.op = "submit_approval" /\ ~tb_last'.raised) =>
          new = Append(old, [round |-> round, outcome |-> "approved"])
    /\ (tb_last'.op = "submit_rejection" /\ ~tb_last'.raised) =>
          new = Append(old, [round |-> round, outcome |-> "rejected", reason |-> "x"])

\* C30: each successful submit_approval or submit_rejection appends
\* exactly one entry, with the current round and the outcome approved or
\* rejected (and the reason of a rejection), to rounds_summary, and no
\* later operation of the session modifies or removes an entry: within a
\* session rounds_summary only grows.  Stated for the long-lived table and
\* for the state file written by tables constructed per call.
C30_RoundsSummaryOnlyGrows ==
    [][ /\ SummaryStep(tb.state.rounds_summary, tb'.state.rounds_summary, tb.state.current_round)
        /\ SummaryStep(pp.state.rounds_summary, pp'.state.rounds_summary, pp.state.current_round)
      ]_vars

\* a rejection summed up after an approval of the same round: the entry of
\* the approval is still the first
C30_Witness ==
    /\ tb_last.op = "submit_rejection"
    /\ ~tb_last.raised
    /\ tb.state.rounds_summary =
          << [round |-> 0, outcome |-> "approved"],
             [round |-> 0, outcome |-> "rejected", reason |-> "x"] >>
    /\ pp.state.rounds_summary = tb.state.rounds_summary

\* C31: send_message on an active session with a message whose recipient
\* is empty (a Doer plan) fills in the recipient resolve_recipient returns
\* (the Critic) and appends the message to the transcript with it.
C31_EmptyRecipientRouted ==
    [][ (/\ tb_last'.op = "send_message"
         /\ tb_last'.arg = <<"doer", "", "plan", "x">>
         /\ Active(tb)) =>
            /\ ~tb_last'.raised
            /\ Len(tb'.transcript) = Len(tb.transcript) + 1
            /\ tb'.transcript[Len(tb'.transcript)].recipient = "critic" ]_vars

\* the escalation messages of a transcript
EscalationsIn(transcript) ==
    Cardinality({i \in 1..Len(transcript) : transcript[i].msg_type = "escalation"})

\* the step is a successful submit_critique or submit_review
VerdictStep == tb_last'.op \in {"submit_critique", "submit_review"} /\ ~tb_last'.raised

\* the escalation messages the step appends
NewEscalations == EscalationsIn(tb'.transcript) - EscalationsIn(tb.transcript)

\* the step has escalated to the arbiter
EscalatedStep ==
    /\ NewEscalations >= 1
    /\ tb'.state.current_phase = "resolve"
    /\ tb'.state.escalation_count = tb.state.escalation_count + 1

\* the strategies' rule as the specification gives it, lenient apart
StrategyAsks(approved) ==
    IF tb.strategy = "default" THEN ~approved /\ tb.state.auto_escalate
    ELSE tb.strategy \in {"strict", "democratic", "autocratic"}

\* the verdict is a disapproval filed in a negotiation that has used up
\* its rounds: process_response declares the deadlock and the table's
\* callback escalates
VerdictDeadlocks(approved) ==
    LET t == tb'.transcript[Len(tb.transcript) + 1].thread_id
    IN  /\ ~approved
        /\ t \in DOMAIN tb.negs
        /\ Len(tb.negs[t].rounds) >= tb.negs[t].max_rounds

C33_ObjectionEscalationPersisted ==
    [][ (/\ tb_last.op = "submit_plan" /\ ~tb_last.raised
         /\ tb_last'.op = "submit_objection" /\ ~tb_last'.raised
         /\ tb'.transcript[Len(tb.transcript) + 1].thread_id
               = tb.transcript[Len(tb.transcript)].thread_id) =>
            /\ tb'.transcript[Len(tb'.transcript)].msg_type = "escalation"
            /\ tb'.transcript[Len(tb'.transcript)].recipient = "arbiter"
            /\ tb'.state.current_phase = "resolve"
            /\ tb'.state.escalation_count = tb.state.escalation_count + 1 ]_vars

\* C34: the persisted counters agree with the transcript: total_messages
\* is the number of its messages, escalation_count the number of its
\* escalation messages.
C34_CountersMatchTranscript ==
    tb.exists =>
        /\ tb.state.total_messages = Len(tb.transcript)
        /\ tb.state.escalation_count = EscalationsIn(tb.transcript)

\* the protocol actions that write current_phase
PhaseWriters ==
    {"submit_implementation", "escalate", "submit_decision", "submit_critique",
     "submit_review", "submit_objection", "submit_counter_proposal"}

\* C35: every change of the persisted current_phase made by a protocol
\* action goes from a phase p to a phase of ALLOWED_TRANSITIONS[p], or
\* leaves the phase unchanged.
C35_PhaseChangesLegal ==
    [][ tb_last'.op \in PhaseWriters =>
          \/ tb'.state.current_phase = tb.state.current_phase
          \/ tb'.state.current_phase \in AllowedTransitions(tb.state.current_phase) ]_vars

\* C36: the machine state status() reports as fsm_state is the session's
\* persisted current_phase, and `finalized` once the session has been
\* finalized (for a session ended otherwise, either of the two).
C36_FsmStateFollowsPhase ==
    tb.exists =>
        IF tb.state.active THEN TblStatus(tb).fsm_state = tb.state.current_phase
        ELSE IF tb_last.op = "finalize" THEN TblStatus(tb).fsm_state = "finalized"
        ELSE TblStatus(tb).fsm_state \in {"finalized", tb.state.current_phase}

\* the statuses the specification calls terminal
TerminalStatuses == {"deadlocked", "escalated", "resolved_accepted", "resolved_rejected"}

\* C37: once a negotiation is deadlocked, escalated, resolved_accepted or
\* resolved_rejected, no process_response call changes its status or its
\* round count, and the deadlock and escalation callbacks do not fire.
C37_TerminalStatusesStay ==
    [][ \A m \in NegMessages(neg_ops + 1) :
          (/\ ProcessResponseCall(m)
           /\ m.thread_id \in DOMAIN neg_tbl
           /\ neg_tbl[m.thread_id].status \in TerminalStatuses) =>
              /\ neg_tbl'[m.thread_id].status = neg_tbl[m.thread_id].status
              /\ Len(neg_tbl'[m.thread_id].rounds) = Len(neg_tbl[m.thread_id].rounds)
              /\ neg_deadlock_calls' = neg_deadlock_calls
              /\ neg_escalate_calls' = neg_escalate_calls ]_vars

\* the positions of the doer's plans and implementations in a transcript
DoerProposals(transcript) ==
    {i \in 1..Len(transcript) :
        transcript[i].sender = "doer" /\ transcript[i].msg_type \in {"plan", "implementation"}}

\* C38: the message recorded by submit_critique is a reply to the Doer's
\* most recent plan or implementation: its reply_to is that message's id
\* and its thread_id that message's thread, also after an escalation.
C38_CritiqueRepliesToProposal ==
    [][ (/\ tb_last'.op = "submit_critique" /\ ~tb_last'.raised
         /\ DoerProposals(tb.transcript) # {}) =>
            LET last == tb.transcript[CHOOSE i \in DoerProposals(tb.transcript) :
                                         \A j \in DoerProposals(tb.transcript) : j <= i]
                critique == FromDict(tb'.transcript[Len(tb.transcript) + 1])
            IN  /\ critique.msg_type = "critique"
                /\ critique.reply_to = last.message_id
                /\ critique.thread_id = last.thread_id ]_vars

\* the critic's rejections recorded in a transcript
RejectionsIn(transcript) ==
    Cardinality({i \in 1..Len(transcript) :
                    /\ transcript[i].msg_type \in {"critique", "review"}
                    /\ transcript[i].approved = "false"})

\* C39: under the lenient strategy the second and every later
\* submit_critique or submit_review with approved = false appends an
\* escalation message, and the first one does not.
C39_LenientEscalatesOnSecondRejection ==
    [][ (VerdictStep /\ tb.strategy = "lenient" /\ ~tb_last'.arg[1]) =>
          IF RejectionsIn(tb.transcript) >= 1 THEN NewEscalations >= 1
          ELSE NewEscalations = 0 ]_vars

\* C40: is_active() is true iff persisted session state exists and its
\* active flag is true; in particular it is false after finalize() and
\* after new_round() has ended the session with max_rounds_reached.
C40_IsActiveIffActiveFlag ==
    /\ IsActive(tb) <=> (tb.exists /\ tb.state.active)
    /\ IsActive(Fresh(pp)) <=> (pp.exists /\ pp.state.active)

====
